---- MODULE Spec2Model ----
(***************************************************************************)
(* Device identity verification, identity cache and inventory update of    *)
(* lab_testing (device_verification.py, device_cache.py).                  *)
(*                                                                         *)
(* Text values (hostnames, unique ids, device ids, IP addresses) are       *)
(* sequences of one-character strings.  Python's None and "" are both the  *)
(* empty sequence: the code only ever tests these values for truthiness,   *)
(* and only ever stores a text after testing that it is non-empty.         *)
(* The output of a failed ssh process is the set of the phrases the code   *)
(* searches it for, after lower().                                         *)
(***************************************************************************)
EXTENDS Integers, Sequences, FiniteSets, TLC

(***************************************************************************)
(* Bounds                                                                  *)
(***************************************************************************)
\* longest text a remote command prints (before the newline)
MaxLen == 2
\* most phrases one process output holds
MaxPhrases == 2
\* most devices in the inventory file
MaxDevices == 2

(***************************************************************************)
(* Text                                                                    *)
(***************************************************************************)
None == <<>>

NL == "\n"

Letters == {"a", "A", "b"}

Whitespace == {NL, " "}

StrsUpTo(n) == UNION {[1..k -> Letters] : k \in 0..n}

\* str.lower(), one character
LowerChar(c) == IF c = "A" THEN "a" ELSE IF c = "B" THEN "b" ELSE c

\* str.lower()
Lower(s) == [i \in 1..Len(s) |-> LowerChar(s[i])]

\* Python's `sub in s` on str
Contains(sub, s) ==
    \E i \in 0..(Len(s) - Len(sub)) : SubSeq(s, i + 1, i + Len(sub)) = sub

RECURSIVE LStrip(_)
LStrip(s) == IF s # <<>> /\ Head(s) \in Whitespace THEN LStrip(Tail(s)) ELSE s

RECURSIVE RStrip(_)
RStrip(s) ==
    IF s # <<>> /\ s[Len(s)] \in Whitespace
    THEN RStrip(SubSeq(s, 1, Len(s) - 1))
    ELSE s

\* str.strip()
Strip(s) == RStrip(LStrip(s))

\* the sentinel the remote commands may print
NOT_FOUND == <<"N", "O", "T", "_", "F", "O", "U", "N", "D">>

\* the shortest unique id the code accepts is longer than this
MinUidLen == 4

(***************************************************************************)
(* Process outputs                                                         *)
(***************************************************************************)
Phrases ==
    {"timeout", "timed out", "connection refused", "permission denied",
     "authentication failed"}

OutTexts == {t \in SUBSET Phrases : Cardinality(t) <= MaxPhrases}

\* the text of a raised exception: what the generic handler searches it for
ExcTexts == SUBSET {"timeout", "timed out", "connection"}


\* subprocess.run's outcome: a CompletedProcess, or the exception it raised
CompletedProcess(rc, out, err, outText) ==
    [kind |-> "done", returncode |-> rc, stdout |-> out, stderr |-> err,
     stdoutText |-> outText, exc |-> {}]

Raised(kind, text) ==
    [kind |-> kind, returncode |-> 1, stdout |-> <<>>, stderr |-> {},
     stdoutText |-> {}, exc |-> text]

NotRun == Raised("notrun", {})

\* what `hostname` prints
HostnameStdouts == {s \o <<NL>> : s \in StrsUpTo(MaxLen)} \cup {<<>>}

\* the serial numbers of the lab's boards share a prefix
UidPrefix == <<"0", "0", "0", "0">>

\* what a unique-id command prints
UidStdouts ==
    {UidPrefix \o s \o <<NL>> : s \in StrsUpTo(MaxLen)}
        \cup {NOT_FOUND \o <<NL>>, <<>>}

\* a hostname command that exits non-zero: its stderr holds some phrases, and
\* its stdout may
FailedProcs ==
    {CompletedProcess(255, <<>>, e, o) :
        e \in OutTexts, o \in {{}, {"timeout"}}}

\* a unique-id command that exits non-zero: its output is never read
FailedUidProcs == {CompletedProcess(255, <<>>, {}, {})}

\* every outcome of one subprocess.run: success printing one of `stdouts`,
\* one of the failures `failed`, or an exception
ProcOutcomes(stdouts, failed) ==
    {CompletedProcess(0, s, {}, {}) : s \in stdouts}
        \cup failed
        \cup {Raised("TimeoutExpired", {})}
        \cup {Raised("Exception", t) : t \in ExcTexts}

HostnameProcs == ProcOutcomes(HostnameStdouts, FailedProcs)

UidProcs == ProcOutcomes(UidStdouts, FailedUidProcs)

(***************************************************************************)
(* Credential store (lab_testing.utils.credentials)                        *)
(***************************************************************************)
CredKinds == {"none", "nopassword", "password"}

\* get_credential(ip, "ssh"): the credential cached for ip, or None
get_credential(store, ip) == store[ip]

\* `cred and cred.get("password")`
HasPassword(cred) == cred = "password"

\* get_ssh_command(..., use_password=True): the credential the command relays
get_ssh_command(cred) == IF HasPassword(cred) THEN "cached" ELSE "default"

(***************************************************************************)
(* verify_device_by_ip (device_verification.py:201-471)                    *)
(***************************************************************************)
Tags == {"timeout", "connection_refused", "auth_failed", "connection_error"}

\* the if/elif chain of lines 263-274 and 309-323 over a lowered text
Classify(text) ==
    IF "timeout" \in text \/ "timed out" \in text THEN "timeout"
    ELSE IF "connection refused" \in text THEN "connection_refused"
    ELSE IF "permission denied" \in text \/ "authentication failed" \in text
         THEN "auth_failed"
    ELSE "connection_error"

\* the message set beside each tag: f"SSH timeout ({username})", ...
SshErrorOf(tag) ==
    CASE tag = "timeout" -> "SSH timeout ({username})"
      [] tag = "connection_refused" -> "SSH connection refused ({username})"
      [] tag = "auth_failed" -> "SSH auth failed ({username})"
      [] OTHER -> "SSH error ({username})"

\* the result dict of lines 216-226
InitialResult(ip) ==
    [ip |-> ip, device_found |-> FALSE, device_id |-> None,
     friendly_name |-> None, hostname |-> None, unique_id |-> None,
     matches |-> <<>>, ssh_error |-> "None", ssh_error_type |-> "None",
     error |-> "None"]

\* the locals of one call: result, ssh_error, ssh_error_type, hostname, the
\* index of the unique-id command, and the log of the ssh attempts made
NewFrame(ip) ==
    [pc |-> "hostname", ip |-> ip, result |-> InitialResult(ip),
     ssh_error |-> "None", ssh_error_type |-> "None", hostname |-> None,
     cmd |-> 1, attempts |-> <<>>]

IdleFrame == [NewFrame("None") EXCEPT !.pc = "idle"]

Attempt(cmd, method) == [cmd |-> cmd, method |-> method]

SetError(st, tag) ==
    [st EXCEPT !.ssh_error_type = tag, !.ssh_error = SshErrorOf(tag)]

ClearError(st) == [st EXCEPT !.ssh_error_type = "None", !.ssh_error = "None"]

\* lines 466-471
Finish(st) ==
    [st EXCEPT
        !.pc = "done",
        !.result.ssh_error =
            IF st.ssh_error # "None" THEN st.ssh_error ELSE @,
        !.result.ssh_error_type =
            IF st.ssh_error # "None" THEN st.ssh_error_type ELSE @]

\* except subprocess.TimeoutExpired, lines 448-453
ExceptTimeoutExpired(st) ==
    Finish([SetError(st, "timeout") EXCEPT
                !.result.error = "SSH command timed out"])

\* except Exception, lines 454-464
ExceptException(st, text) ==
    LET s1 == [st EXCEPT !.result.error = "Failed to identify device"]
    IN  Finish(
            IF "timeout" \in text \/ "timed out" \in text
            THEN [s1 EXCEPT !.ssh_error = "SSH timeout",
                            !.ssh_error_type = "timeout"]
            ELSE IF "connection" \in text
            THEN [s1 EXCEPT !.ssh_error = "SSH connection error",
                            !.ssh_error_type = "connection_error"]
            ELSE s1)

\* lines 329-335: take the hostname from a successful hostname_result
HostnameOutcome(st, hostname_result) ==
    LET hostname == Strip(hostname_result.stdout)
    IN  IF hostname_result.returncode = 0
        THEN IF hostname # <<>>
             THEN [ClearError(st) EXCEPT !.pc = "uid", !.hostname = hostname,
                                         !.result.hostname = hostname]
             ELSE [st EXCEPT !.pc = "uid", !.hostname = hostname]
        ELSE [st EXCEPT !.pc = "uid"]

\* lines 282-327: the retry with the cached password
PasswordHostname(st, cred, pw) ==
    LET s1 == [st EXCEPT !.attempts =
                   Append(@, Attempt("hostname", get_ssh_command(cred)))]
    IN  IF pw.kind = "TimeoutExpired"
        THEN \* lines 294-300, then the re-classification of the stand-in
             HostnameOutcome(SetError(s1, Classify({"timeout"})),
                             CompletedProcess(1, <<>>, {"timeout"}, {}))
        ELSE IF pw.kind = "Exception"
        THEN ExceptException(s1, pw.exc)
        ELSE IF pw.returncode # 0
        THEN HostnameOutcome(
                 SetError(s1, Classify(pw.stderr \cup pw.stdoutText)), pw)
        ELSE HostnameOutcome(ClearError(s1), pw)

\* the hostname command by key alone, without the retry of lines 276-327
HostnameStepKeyOnly(st, key, cred, pw) ==
    LET s1 == [st EXCEPT !.attempts = Append(@, Attempt("hostname", "key"))]
    IN  IF key.kind = "TimeoutExpired" THEN ExceptTimeoutExpired(s1)
        ELSE IF key.kind = "Exception" THEN ExceptException(s1, key.exc)
        ELSE IF key.returncode # 0
        THEN HostnameOutcome(SetError(s1, Classify(key.stderr)), key)
        ELSE HostnameOutcome(s1, key)

\* lines 240-335: the hostname command, by key and then by cached password
HostnameStep(st, key, cred, pw) ==
    LET s1 == [st EXCEPT !.attempts = Append(@, Attempt("hostname", "key"))]
    IN  IF key.kind = "TimeoutExpired" THEN ExceptTimeoutExpired(s1)
        ELSE IF key.kind = "Exception" THEN ExceptException(s1, key.exc)
        ELSE IF key.returncode # 0
        THEN LET s2 == SetError(s1, Classify(key.stderr))
             IN  IF HasPassword(cred)
                 THEN PasswordHostname(s2, cred, pw)
                 ELSE HostnameOutcome(s2, key)
        ELSE HostnameOutcome(s1, key)

\* uid_commands, lines 338-342
uid_commands == <<"soc0/serial_number", "device-tree/serial-number", "machine-id">>

\* lines 382-386: accept the printed unique id, or go on to the next command
UidOutcome(st, uid_result) ==
    LET unique_id == Strip(uid_result.stdout)
        next == IF st.cmd = Len(uid_commands)
                THEN [st EXCEPT !.pc = "match"]
                ELSE [st EXCEPT !.cmd = @ + 1]
    IN  IF uid_result.returncode = 0
        THEN IF unique_id # <<>> /\ unique_id # NOT_FOUND
                  /\ Len(unique_id) > MinUidLen
             THEN [st EXCEPT !.pc = "match", !.result.unique_id = unique_id]
             ELSE next
        ELSE next

\* lines 344-386: one unique-id command, by key and then by cached password;
\* a timeout of either attempt is caught only by the outer handler
UidStep(st, key, cred, pw) ==
    LET cmd == uid_commands[st.cmd]
        s1 == [st EXCEPT !.attempts = Append(@, Attempt(cmd, "key"))]
        s2 == [s1 EXCEPT !.attempts =
                   Append(@, Attempt(cmd, get_ssh_command(cred)))]
    IN  IF key.kind = "TimeoutExpired" THEN ExceptTimeoutExpired(s1)
        ELSE IF key.kind = "Exception" THEN ExceptException(s1, key.exc)
        ELSE IF key.returncode # 0 /\ HasPassword(cred)
        THEN IF pw.kind = "TimeoutExpired" THEN ExceptTimeoutExpired(s2)
             ELSE IF pw.kind = "Exception" THEN ExceptException(s2, pw.exc)
             ELSE UidOutcome(s2, pw)
        ELSE UidOutcome(s1, key)

(***************************************************************************)
(* Inventory (the lab devices configuration file)                          *)
(***************************************************************************)
IPs == {"10.0.0.5", "10.0.0.6"}

Device(id, hostname, uid, soc, fname, name, ip) ==
    [device_id |-> id, hostname |-> hostname, unique_id |-> uid,
     soc_id |-> soc, friendly_name |-> fname, name |-> name, ip |-> ip]

\* the device records an inventory is drawn from
DevicePool ==
    {Device(<<"a">>, None, UidPrefix \o <<"a">>, None, <<"f", "1">>, None,
            "10.0.0.5"),
     Device(<<"a", "b">>, <<"A", "b">>, None, UidPrefix \o <<"a", "b">>, None,
            <<"n", "2">>, "10.0.0.6"),
     Device(<<"b", "b">>, <<"a">>, UidPrefix \o <<"A">>, None, None, None,
            "None"),
     Device(<<"b">>, None, None, None, None, None, "10.0.0.6")}

RECURSIVE Distinct(_)
Distinct(seq) ==
    \/ seq = <<>>
    \/ /\ \A i \in 2..Len(seq) : seq[i].device_id # Head(seq).device_id
       /\ Distinct(Tail(seq))

\* device_id is unique within the inventory
Inventories ==
    {inv \in UNION {[1..k -> DevicePool] : k \in 0..MaxDevices} : Distinct(inv)}

\* dict.get(k) or fallback
Or(v, fallback) == IF v # <<>> THEN v ELSE fallback

\* expected_hostname, line 400
ExpectedHostname(device) == Or(device.hostname, device.device_id)

\* expected_uid, line 413
ExpectedUid(device) == Or(device.unique_id, device.soc_id)

\* friendly_name, lines 429-430
FriendlyName(device) ==
    Or(device.friendly_name, Or(device.name, device.device_id))

\* lines 399-410: the hostname's share of the score
HostnameScoreByExpected(device, hostname) ==
    LET expected_hostname == ExpectedHostname(device)
    IN  IF hostname # <<>> /\ expected_hostname # <<>>
        THEN IF Lower(hostname) = Lower(expected_hostname)
             THEN [score |-> 10, reasons |-> <<"exact_hostname_match">>]
             ELSE IF \/ Contains(Lower(expected_hostname), Lower(hostname))
                     \/ Contains(Lower(hostname), Lower(expected_hostname))
             THEN [score |-> 5, reasons |-> <<"partial_hostname_match">>]
             ELSE [score |-> 0, reasons |-> <<>>]
        ELSE [score |-> 0, reasons |-> <<>>]

HostnameScore(device, hostname) ==
    LET expected_hostname == ExpectedHostname(device)
    IN  IF hostname # <<>> /\ expected_hostname # <<>>
        THEN IF Lower(hostname) = Lower(expected_hostname)
             THEN [score |-> 10, reasons |-> <<"exact_hostname_match">>]
             ELSE IF \/ Contains(Lower(device.device_id), Lower(hostname))
                     \/ Contains(Lower(hostname), Lower(expected_hostname))
             THEN [score |-> 5, reasons |-> <<"partial_hostname_match">>]
             ELSE [score |-> 0, reasons |-> <<>>]
        ELSE [score |-> 0, reasons |-> <<>>]

\* lines 412-423: the unique id's share of the score
UidScore(device, unique_id) ==
    LET expected_uid == ExpectedUid(device)
    IN  IF unique_id # <<>> /\ expected_uid # <<>>
        THEN IF Lower(unique_id) = Lower(expected_uid)
             THEN [score |-> 10, reasons |-> <<"exact_uid_match">>]
             ELSE IF \/ Contains(Lower(expected_uid), Lower(unique_id))
                     \/ Contains(Lower(unique_id), Lower(expected_uid))
             THEN [score |-> 5, reasons |-> <<"partial_uid_match">>]
             ELSE [score |-> 0, reasons |-> <<>>]
        ELSE [score |-> 0, reasons |-> <<>>]

\* lines 425-435: the candidate appended for a device
Candidate(device, hostname, unique_id) ==
    LET h == HostnameScore(device, hostname)
        u == UidScore(device, unique_id)
    IN  [device_id |-> device.device_id,
         friendly_name |-> FriendlyName(device),
         match_score |-> h.score + u.score,
         reasons |-> h.reasons \o u.reasons,
         configured_ip |-> device.ip]

\* a candidate for every device, whatever its score
AllCandidates(devices, hostname, unique_id) ==
    [i \in 1..Len(devices) |-> Candidate(devices[i], hostname, unique_id)]

\* lines 395-435: the candidates, in inventory order, of positive score
RECURSIVE Candidates(_, _, _)
Candidates(devices, hostname, unique_id) ==
    IF devices = <<>> THEN <<>>
    ELSE LET c == Candidate(Head(devices), hostname, unique_id)
             rest == Candidates(Tail(devices), hostname, unique_id)
         IN  IF c.match_score > 0 THEN <<c>> \o rest ELSE rest

\* where list.sort(reverse=True) puts x among sorted elements that came
\* before it: after every element whose key is not smaller (the sort is stable)
RECURSIVE InsertAscending(_, _)
InsertAscending(x, sorted) ==
    IF sorted = <<>> THEN <<x>>
    ELSE IF Head(sorted).match_score <= x.match_score
    THEN <<Head(sorted)>> \o InsertAscending(x, Tail(sorted))
    ELSE <<x>> \o sorted

RECURSIVE InsertDescending(_, _)
InsertDescending(x, sorted) ==
    IF sorted = <<>> THEN <<x>>
    ELSE IF Head(sorted).match_score >= x.match_score
    THEN <<Head(sorted)>> \o InsertDescending(x, Tail(sorted))
    ELSE <<x>> \o sorted

\* the sort without reverse=True
RECURSIVE SortByScoreAscending(_)
SortByScoreAscending(matches) ==
    IF matches = <<>> THEN <<>>
    ELSE InsertAscending(matches[Len(matches)],
            SortByScoreAscending(SubSeq(matches, 1, Len(matches) - 1)))

\* line 438: matches.sort(key=match_score, reverse=True)
RECURSIVE SortByScore(_)
SortByScore(matches) ==
    IF matches = <<>> THEN <<>>
    ELSE InsertDescending(matches[Len(matches)],
                          SortByScore(SubSeq(matches, 1, Len(matches) - 1)))

\* the least score the best match is accepted with, line 443
AcceptScore == 5

\* lines 440-446
BestMatch(st) ==
    IF st.result.matches # <<>>
       /\ st.result.matches[1].match_score >= AcceptScore
    THEN [st EXCEPT
            !.result.device_found = TRUE,
            !.result.device_id = st.result.matches[1].device_id,
            !.result.friendly_name = st.result.matches[1].friendly_name]
    ELSE st

\* lines 388-446: read the inventory, score, sort, pick; an unreadable
\* inventory raises an error whose text names neither a timeout nor a
\* connection
MatchStep(st, config) ==
    IF ~config.readable THEN ExceptException(st, {})
    ELSE Finish(BestMatch(
            [st EXCEPT !.result.matches =
                SortByScore(Candidates(config.devices, st.hostname,
                                       st.result.unique_id))]))

(***************************************************************************)
(* _get_firmware_version_from_ip (device_cache.py:228-322)                 *)
(***************************************************************************)
\* what `cat /etc/os-release || echo ''` prints
OsReleaseStdouts == {<<>>, <<NL>>, <<"N", "A", "M", "E", "=", "a", NL>>}

FirmwareProcs ==
    {CompletedProcess(0, s, {}, {}) : s \in OsReleaseStdouts}
        \cup FailedUidProcs
        \cup {Raised("Exception", {})}

IdleFirmware ==
    [pc |-> "idle", ip |-> "None", attempts |-> <<>>, firmware |-> None]

\* lines 296-322: the parsed os-release, or None
FirmwareOutcome(f, result) ==
    [f EXCEPT
        !.pc = "done",
        !.firmware =
            IF result.kind = "done" /\ result.returncode = 0
               /\ Strip(result.stdout) # <<>>
            THEN Strip(result.stdout) ELSE None]

\* lines 279-294: a last attempt with password authentication left to ssh
InteractiveFirmware(f, result, interactive) ==
    IF result.returncode # 0
    THEN FirmwareOutcome(
            [f EXCEPT !.attempts =
                Append(@, Attempt("os-release", "interactive"))],
            interactive)
    ELSE FirmwareOutcome(f, result)

\* lines 242-322: by key, then by cached password, then interactively; any
\* exception ends the call with None
get_firmware_version_from_ip(ip, key, cred, pw, interactive) ==
    LET f1 == [IdleFirmware EXCEPT
                  !.ip = ip,
                  !.attempts = <<Attempt("os-release", "key")>>]
        f2 == [f1 EXCEPT !.attempts =
                  Append(@, Attempt("os-release", get_ssh_command(cred)))]
    IN  IF key.kind # "done" THEN FirmwareOutcome(f1, key)
        ELSE IF key.returncode # 0 /\ HasPassword(cred)
        THEN IF pw.kind # "done" THEN FirmwareOutcome(f2, pw)
             ELSE InteractiveFirmware(f2, pw, interactive)
        ELSE InteractiveFirmware(f1, key, interactive)

(***************************************************************************)
(* verify_device_identity (device_verification.py:75-198)                  *)
(***************************************************************************)
\* the references a caller may pass: a device id, a friendly name, or a text
\* that is neither
DeviceRefs ==
    {<<"a">>, <<"a", "b">>, <<"b", "b">>, <<"b">>, <<"f", "1">>, <<"z">>}

\* the ip argument: an address, or None
IpArgs == IPs \cup {"None"}

IndexOf(devices, device_id) ==
    CHOOSE i \in 1..Len(devices) : devices[i].device_id = device_id

HasDevice(devices, device_id) ==
    \E i \in 1..Len(devices) : devices[i].device_id = device_id

\* resolve_device_identifier: the reference itself when it is a device id of
\* the inventory, else the id of the first device it is the friendly name
\* of, else None; an unreadable inventory resolves nothing
resolve_device_identifier(config, ref) ==
    LET named == {i \in 1..Len(config.devices) :
                    config.devices[i].friendly_name = ref}
    IN  IF ~config.readable THEN None
        ELSE IF HasDevice(config.devices, ref) THEN ref
        ELSE IF named # {}
        THEN config.devices[CHOOSE i \in named : \A j \in named : i <= j]
                .device_id
        ELSE None

\* ssh_to_device's outcome: a dict with success and stdout, or an exception
SshResult(kind, stdout) == [kind |-> kind, stdout |-> stdout]

SshResults(stdouts) ==
    {SshResult("success", s) : s \in stdouts}
        \cup {SshResult("failure", <<>>), SshResult("raised", <<>>)}

\* the address ssh_to_device(device_id, command, username) runs the command
\* at: its arguments name the device and nothing else, so it is the address
\* the inventory holds for the device, whatever `ip` the caller was given
SshEndpoint(config, device_id) ==
    IF config.readable /\ HasDevice(config.devices, device_id)
    THEN config.devices[IndexOf(config.devices, device_id)].ip
    ELSE "None"

\* what ssh_to_device may return: without an address there is no success
SshResultsAt(endpoint, stdouts) ==
    IF endpoint = "None"
    THEN {SshResult("failure", <<>>), SshResult("raised", <<>>)}
    ELSE SshResults(stdouts)

\* a dict without the keys of a verification: every .get() of it gives None
NoVerification ==
    [kind |-> "none", success |-> FALSE, error |-> "None",
     device_id |-> None, friendly_name |-> None, ip_checked |-> "None",
     configured_ip |-> "None", ip_matches |-> FALSE,
     expected_hostname |-> None, expected_unique_id |-> None,
     actual_hostname |-> None, actual_unique_id |-> None,
     hostname_matches |-> FALSE, unique_id_matches |-> FALSE,
     verified |-> FALSE, suggestion |-> FALSE]

\* the early returns of lines 92-95, 104 and 113
VerificationFailure(error) ==
    [NoVerification EXCEPT !.kind = "failure", !.error = error]

\* the verification dict of lines 115-137
InitialVerification(device, ip) ==
    [NoVerification EXCEPT
        !.kind = "verification",
        !.device_id = device.device_id,
        !.friendly_name = FriendlyName(device),
        !.ip_checked = ip,
        !.configured_ip = device.ip,
        !.ip_matches = (ip = device.ip),
        !.expected_hostname = ExpectedHostname(device),
        !.expected_unique_id = ExpectedUid(device)]

\* the result dict of update_device_ip_if_changed; "none" while there is none
NoResult ==
    [kind |-> "none", success |-> FALSE, error |-> "None", message |-> "None",
     old_ip |-> "None", new_ip |-> "None", verification |-> NoVerification]

\* the locals of one call of verify_device_identity, made on its own or by
\* update_device_ip_if_changed: the arguments, the resolved device_id, the
\* index of the unique-id command, the verification and the caller's result;
\* `endpoint` is the address its commands were run at, "None" before any
NewCall(op, ref, ip) ==
    [pc |-> "resolve", op |-> op, ref |-> ref, ip |-> ip, device_id |-> None,
     cmd |-> 1, endpoint |-> "None",
     verification |-> NoVerification, result |-> NoResult]

IdleCall == [NewCall("none", None, "None") EXCEPT !.pc = "idle"]

\* `return` of verify_device_identity: to the caller of the tool, or to line
\* 488 of update_device_ip_if_changed
VdiReturn(c, verification) ==
    [c EXCEPT !.verification = verification,
              !.pc = IF c.op = "update" THEN "decide" ELSE "done"]

\* an exception that leaves verify_device_identity, and its caller with it
VdiRaise(c) == [c EXCEPT !.pc = "raised"]

\* lines 89-95
VdiResolve(c, config) ==
    LET device_id == resolve_device_identifier(config, c.ref)
    IN  IF device_id = None
        THEN VdiReturn(c, VerificationFailure("not found in configuration"))
        ELSE [c EXCEPT !.pc = "load", !.device_id = device_id]

\* lines 97-137: the inventory is opened and parsed outside any try
VdiLoad(c, config) ==
    IF ~config.readable THEN VdiRaise(c)
    ELSE IF ~HasDevice(config.devices, c.device_id)
    THEN VdiReturn(c, VerificationFailure("not found in configuration"))
    ELSE LET device == config.devices[IndexOf(config.devices, c.device_id)]
             ip == IF c.ip # "None" THEN c.ip ELSE device.ip
         IN  IF ip = "None"
             THEN VdiReturn(c, VerificationFailure(
                                 "No IP address provided or configured"))
             ELSE [c EXCEPT !.pc = "hostname",
                            !.verification = InitialVerification(device, ip)]

\* except Exception, lines 194-198
VdiExcept(c) ==
    VdiReturn(c, [c.verification EXCEPT !.error = "Verification failed"])

\* lines 146-155
HostnameMatches(device_id, expected_hostname, actual_hostname) ==
    IF expected_hostname # <<>>
    THEN \/ Lower(actual_hostname) = Lower(expected_hostname)
         \/ Contains(Lower(device_id), Lower(actual_hostname))
         \/ Contains(Lower(actual_hostname), Lower(expected_hostname))
    ELSE Contains(Lower(device_id), Lower(actual_hostname))

\* lines 141-155
VdiHostnameStep(c, hostname_result) ==
    LET actual_hostname == Strip(hostname_result.stdout)
    IN  IF hostname_result.kind = "raised" THEN VdiExcept(c)
        ELSE IF hostname_result.kind = "success"
        THEN [c EXCEPT
                !.pc = "uid",
                !.verification.actual_hostname = actual_hostname,
                !.verification.hostname_matches =
                    HostnameMatches(c.device_id,
                                    c.verification.expected_hostname,
                                    actual_hostname)]
        ELSE [c EXCEPT !.pc = "uid"]

\* lines 171-179
UniqueIdMatches(expected_unique_id, actual_uid) ==
    IF expected_unique_id # <<>>
    THEN \/ Lower(actual_uid) = Lower(expected_unique_id)
         \/ Contains(Lower(expected_unique_id), Lower(actual_uid))
         \/ Contains(Lower(actual_uid), Lower(expected_unique_id))
    ELSE TRUE

\* lines 182-192
VdiFinish(c) ==
    LET v == c.verification
        verified == v.hostname_matches \/ v.unique_id_matches
    IN  VdiReturn(c, [v EXCEPT !.verified = verified,
                               !.success = TRUE,
                               !.suggestion = verified /\ ~v.ip_matches])

\* lines 164-180: one command of unique_id_commands
VdiUidStep(c, uid_result) ==
    LET actual_uid == Strip(uid_result.stdout)
        next == IF c.cmd = Len(uid_commands) THEN VdiFinish(c)
                ELSE [c EXCEPT !.cmd = @ + 1]
    IN  IF uid_result.kind = "raised" THEN VdiExcept(c)
        ELSE IF /\ uid_result.kind = "success"
                /\ actual_uid # <<>> /\ actual_uid # NOT_FOUND
                /\ Len(actual_uid) > MinUidLen
        THEN VdiFinish(
                [c EXCEPT
                    !.verification.actual_unique_id = actual_uid,
                    !.verification.unique_id_matches =
                        UniqueIdMatches(c.verification.expected_unique_id,
                                        actual_uid)])
        ELSE next

(***************************************************************************)
(* update_device_ip_if_changed (device_verification.py:474-534)            *)
(***************************************************************************)
\* the test of line 490 with a truthy "success" taken for "verified"
VerifiedOrSucceeded(verification) ==
    verification.verified \/ verification.success

\* verification.get("verified"), line 490
Verified(verification) == verification.verified

UpdateReturn(c, result) ==
    [c EXCEPT !.pc = "done", !.result = [result EXCEPT !.kind = "result"]]

\* how the write of lines 516-518 may end: done, refused on open, or failed
\* after open(..., "w") emptied the file
WriteOutcomes == {"written", "refused", "truncated"}

\* lines 490-534, after verify_device_identity returned: the call's frame and
\* the inventory file it leaves
update_device_ip_if_changed(c, config, write) ==
    LET verification == c.verification
        new_ip == c.ip
        device_id == verification.device_id
        k == IndexOf(config.devices, device_id)
        old_ip == config.devices[k].ip
        failed == [NoResult EXCEPT
                      !.error = "Failed to update config file",
                      !.verification = verification]
    IN  IF ~Verified(verification)
        THEN [config |-> config,
              call |-> UpdateReturn(c, [NoResult EXCEPT
                  !.error = "Device identity verification failed",
                  !.verification = verification])]
        ELSE IF ~config.readable
        THEN [config |-> config, call |-> VdiRaise(c)]
        ELSE IF ~HasDevice(config.devices, device_id)
        THEN [config |-> config,
              call |-> UpdateReturn(c, [NoResult EXCEPT
                  !.error = "not found in configuration"])]
        ELSE IF old_ip = new_ip
        THEN [config |-> config,
              call |-> UpdateReturn(c, [NoResult EXCEPT
                  !.success = TRUE,
                  !.message = "IP address unchanged",
                  !.new_ip = new_ip])]
        ELSE IF write = "written"
        THEN [config |-> [config EXCEPT !.devices[k].ip = new_ip],
              call |-> UpdateReturn(c, [NoResult EXCEPT
                  !.success = TRUE,
                  !.message = "Device IP updated",
                  !.old_ip = old_ip,
                  !.new_ip = new_ip,
                  !.verification = verification])]
        ELSE IF write = "refused"
        THEN [config |-> config, call |-> UpdateReturn(c, failed)]
        ELSE [config |-> [config EXCEPT !.readable = FALSE],
              call |-> UpdateReturn(c, failed)]

(***************************************************************************)
(* Identity cache (device_cache.py)                                        *)
(***************************************************************************)
\* Cache expiration time (24 hours), in seconds
CACHE_EXPIRY_SECONDS == 24 * 60 * 60

\* the keys identify_and_cache_device passes to cache_device_info
InfoKeys ==
    {"hostname", "unique_id", "device_id", "friendly_name", "device_found",
     "matches", "firmware", "ssh_error", "ssh_error_type"}

\* an entry without any key: every .get() of it gives None (False, 0).
\* observed_at is no key of the dict: it records the time of the last merge
\* whose device_info carried a hostname or a device id, which no code reads
EmptyEntry ==
    [hostname |-> None, unique_id |-> None, device_id |-> None,
     friendly_name |-> None, device_found |-> FALSE, matches |-> <<>>,
     firmware |-> None, ssh_error |-> "None", ssh_error_type |-> "None",
     friendly_name_updated |-> 0, cached_at |-> 0, ip |-> "None",
     observed_at |-> 0]

\* a device_info dict: the keys it has and their values
DeviceInfo(keys, values) == [keys |-> keys, values |-> values]

\* device_info.get(key)
InfoGet(device_info, key) ==
    IF key \in device_info.keys THEN device_info.values[key]
    ELSE EmptyEntry[key]

\* lines 358-368: the device_info built from a verification and the firmware
InfoOfVerification(verification, firmware_info) ==
    DeviceInfo(InfoKeys,
        [EmptyEntry EXCEPT
            !.hostname = verification.hostname,
            !.unique_id = verification.unique_id,
            !.device_id = verification.device_id,
            !.friendly_name = verification.friendly_name,
            !.device_found = verification.device_found,
            !.matches = verification.matches,
            !.firmware = firmware_info,
            !.ssh_error = verification.ssh_error,
            !.ssh_error_type = verification.ssh_error_type])

\* cache.get(ip, {})
CacheGet(cache, ip) == IF ip \in DOMAIN cache THEN cache[ip] ELSE EmptyEntry

\* line 206 left out: the entry keeps the values it has
DictKeep(existing, device_info) == existing

\* dict.update, line 206
DictUpdate(existing, device_info) ==
    [key \in DOMAIN existing |->
        IF key \in device_info.keys THEN device_info.values[key]
        ELSE existing[key]]

\* lines 208-211: the hostname the entry had is put back when the new data
\* has none
PreserveHostname(updated, existing_hostname, device_info) ==
    IF existing_hostname # None /\ InfoGet(device_info, "hostname") = None
    THEN [updated EXCEPT !.hostname = existing_hostname]
    ELSE updated

\* lines 213-216 left out: the entry keeps the error it has
KeepOldErrors(existing) == existing

\* lines 213-216
ClearOldErrors(existing) ==
    IF existing.hostname # None \/ existing.device_found
    THEN [existing EXCEPT !.ssh_error = "None", !.ssh_error_type = "None"]
    ELSE existing

\* lines 201-220: the entry cache_device_info stores for ip
MergedEntry(cache, ip, device_info, now) ==
    LET existing == CacheGet(cache, ip)
        merged == ClearOldErrors(
                    PreserveHostname(DictUpdate(existing, device_info),
                                     existing.hostname, device_info))
        observed == \/ InfoGet(device_info, "hostname") # None
                    \/ InfoGet(device_info, "device_id") # None
    IN  [merged EXCEPT !.cached_at = now, !.ip = ip,
                       !.observed_at = IF observed THEN now ELSE @]

\* line 222 left out: the entry is not put into the dict
CacheKeep(cache, ip, entry) == cache

\* line 222: cache[ip] = existing
CachePut(cache, ip, entry) ==
    [k \in DOMAIN cache \cup {ip} |-> IF k = ip THEN entry ELSE cache[k]]

\* the expiry test of line 141 with >= for >
ExpiredAtLimit(now, cached_time) == now - cached_time >= CACHE_EXPIRY_SECONDS

\* line 141
Expired(now, cached_time) == now - cached_time > CACHE_EXPIRY_SECONDS

\* the value get_cached_device_info returns: the entry, or "None"
Returned(entry) == [none |-> FALSE, entry |-> entry]

ReturnedNone == [none |-> TRUE, entry |-> EmptyEntry]

\* lines 133-145, on the cache load_device_cache gave
get_cached_device_info(cache, ip, now) ==
    IF ip \notin DOMAIN cache THEN ReturnedNone
    ELSE IF Expired(now, cache[ip].cached_at) THEN ReturnedNone
    ELSE Returned(cache[ip])

\* the content of the cache file: "absent" (no file), "empty" (white space
\* only), "json" (the json of a dict keyed by IP), "garbled" (text that
\* json.loads rejects) or "undecodable" (bytes that are no text in the
\* encoding open() reads with)
CacheFile(kind, cache) == [kind |-> kind, cache |-> cache]

EmptyCache == [ip \in {} |-> EmptyEntry]

NoCacheFile == CacheFile("absent", EmptyCache)

\* lines 38-65: the dict load_device_cache returns
load_device_cache(file) == IF file.kind = "json" THEN file.cache ELSE EmptyCache

\* line 47: f.read() raises UnicodeDecodeError on bytes that are no text;
\* it is a ValueError but no json.JSONDecodeError and no IOError, so neither
\* handler of lines 51 and 63 catches it
LoadRaises(file) == file.kind = "undecodable"

\* lines 51-62: device_cache.json.bak after a load of `file`; copy2 is tried
\* when json.loads fails, and its own failure is passed over (lines 60-61)
BackupAfterLoad(file, backup, copied) ==
    IF file.kind = "garbled" /\ copied THEN file ELSE backup

\* no cached entry is ever probed again
NeverReverify(cached_info) == FALSE

\* line 344: a cached entry with an SSH error and no hostname is probed again
NeedsReverify(cached_info) ==
    cached_info.ssh_error # "None" /\ cached_info.hostname = None

\* how the device at an address answers the commands of one identification:
\* the outcome of `hostname`, of each unique-id command, and of the read of
\* /etc/os-release
DeviceAnswer(hostname, uid, firmware) ==
    [hostname |-> hostname, uid |-> uid, firmware |-> firmware]

Denied == CompletedProcess(255, <<>>, {"permission denied"}, {})

OsRelease == CompletedProcess(0, <<"N", "A", "M", "E", "=", "a", NL>>, {}, {})

DeviceAnswers ==
    {DeviceAnswer(CompletedProcess(0, <<"a", NL>>, {}, {}),
                  CompletedProcess(0, UidPrefix \o <<"a", NL>>, {}, {}),
                  OsRelease),
     DeviceAnswer(CompletedProcess(0, <<"b", NL>>, {}, {}),
                  CompletedProcess(255, <<>>, {}, {}),
                  OsRelease),
     DeviceAnswer(Denied,
                  CompletedProcess(0, UidPrefix \o <<"a", NL>>, {}, {}),
                  Denied),
     DeviceAnswer(Denied, Denied, Denied),
     DeviceAnswer(Raised("Exception", {}), NotRun, Raised("Exception", {}))}

\* the unique-id commands of one call of verify_device_by_ip, each answered
\* by uid_result
RECURSIVE RunUidCommands(_, _, _, _)
RunUidCommands(st, uid_result, cred, pw) ==
    IF st.pc # "uid" THEN st
    ELSE RunUidCommands(UidStep(st, uid_result, cred, pw), uid_result, cred, pw)

\* verify_device_by_ip from call to return, lines 201-471, with no password
\* cached for the address
verify_device_by_ip(ip, config, answer) ==
    LET probed == RunUidCommands(
                    HostnameStep(NewFrame(ip), answer.hostname, "none", NotRun),
                    answer.uid, "none", NotRun)
    IN  IF probed.pc = "match" THEN MatchStep(probed, config).result
        ELSE probed.result

\* lines 352-368 of identify_and_cache_device
IdentifiedInfo(ip, config, answer) ==
    InfoOfVerification(
        verify_device_by_ip(ip, config, answer),
        get_firmware_version_from_ip(ip, answer.firmware, "none", NotRun,
                                     answer.firmware).firmware)

\* most concurrent callers of the cache
MaxThreads == 2

Threads == 1..MaxThreads

\* the locals of one call of a cache operation: its arguments ip and
\* device_info (for update_cached_friendly_name the friendly_name, kept as a
\* device_info of that one key), the dict it loaded, whether its save
\* replaced the file, and the value it returns: ret for a dict or None, flag
\* for a bool
ThreadFrame(pc, op, ip, device_info) ==
    [pc |-> pc, op |-> op, ip |-> ip, device_info |-> device_info,
     cache |-> EmptyCache, saved |-> FALSE, ret |-> ReturnedNone,
     flag |-> FALSE]

IdleThread == ThreadFrame("idle", "none", "None", DeviceInfo({}, EmptyEntry))

\* lines 165-166 of update_cached_friendly_name
Renamed(cache, ip, friendly_name, now) ==
    [cache EXCEPT ![ip].friendly_name = friendly_name,
                  ![ip].friendly_name_updated = now]

\* identify_and_cache_device(ip) from call to return, lines 341-373, on the
\* cache file `file`, the device answering with `answer`: the value
\* returned, whether the device was probed, and the cache file left; `saved`
\* tells whether save_device_cache could replace the file
identify_and_cache_device(file, ip, config, answer, now, saved) ==
    LET cache == load_device_cache(file)
        cached_info == get_cached_device_info(cache, ip, now)
        device_info == IdentifiedInfo(ip, config, answer)
        merged == CachePut(cache, ip, MergedEntry(cache, ip, device_info, now))
    IN  IF ~cached_info.none /\ ~NeedsReverify(cached_info.entry)
        THEN [ret |-> cached_info, probed |-> FALSE, file |-> file]
        ELSE [ret |-> Returned(device_info.values), probed |-> TRUE,
              file |-> IF saved THEN CacheFile("json", merged) ELSE file]

\* a caller of two identifications of one address: the address, how the
\* device answers, and for each call what it returned and whether it probed
\* the device
IdleRun ==
    [pc |-> "idle", ip |-> "None",
     answer |-> DeviceAnswer(NotRun, NotRun, NotRun),
     first |-> ReturnedNone, second |-> ReturnedNone,
     probed |-> <<FALSE, FALSE>>]

(***************************************************************************)
(* save_device_cache (device_cache.py:68-120) and the file system          *)
(***************************************************************************)
\* What a file holds: the complete json of some dict, or a truncated or
\* partial text.  `of` names the dict: 0 the one the cache file held at the
\* start, t the one thread t saves.
Complete(of) == [kind |-> "complete", of |-> of]

Torn(of) == [kind |-> "torn", of |-> of]

\* A file: what readers of it see, and whether that reached stable storage.
\* A rename reaches the disk when it is made; the data of a file reaches it
\* on fsync, or at some later time of the system's choosing.
File(data, synced) == [exists |-> TRUE, data |-> data, synced |-> synced]

NoFile == [exists |-> FALSE, data |-> Torn(0), synced |-> FALSE]

\* the cache directory: device_cache.json and device_cache.json.tmp
Directory(cache, temp) == [cache |-> cache, temp |-> temp]

\* open(temp_file, 'w'), lines 87 and 115: the file is created or emptied
OpenForWrite(dir, t) == [dir EXCEPT !.temp = File(Torn(t), FALSE)]

\* json.dump and the flush or close that follows, lines 88-89 and 116
Dump(dir, t) == [dir EXCEPT !.temp = File(Complete(t), FALSE)]

\* os.fsync, line 91
Fsync(dir) == [dir EXCEPT !.temp.synced = TRUE]

\* os.replace(temp_file, DEVICE_CACHE_FILE), lines 102 and 118
Replace(dir) == [dir EXCEPT !.cache = dir.temp, !.temp = NoFile]

\* temp_file.unlink() if it exists, lines 106-108
Unlink(dir) == [dir EXCEPT !.temp = NoFile]

\* what the directory may hold after a loss of power: a file whose data was
\* not forced to stable storage holds it whole or torn
AfterPowerLoss(dir) ==
    {[cache |-> c, temp |-> NoFile] :
        c \in IF dir.cache.exists /\ ~dir.cache.synced
              THEN {File(dir.cache.data, TRUE),
                    File(Torn(dir.cache.data.of), TRUE)}
              ELSE {dir.cache}}

\* the position of a thread in save_device_cache
IdleSaver == [pc |-> "idle"]

(***************************************************************************)
(* File transfers: tools/file_transfer.py                                  *)
(***************************************************************************)
\* the four operations
TransferOps ==
    {"copy_file_to_device", "copy_file_from_device",
     "sync_directory_to_device", "copy_files_to_device_parallel"}

\* what a local path names on disk
LocalKinds == {"file", "dir", "missing"}

\* the longest file_pairs list explored
MaxPairs == 2

\* an element of file_pairs: a [local_path, remote_path] pair, told by what
\* its local path names, or something that is no pair of two
PairKinds == LocalKinds \cup {"malformed"}

FilePairLists == UNION {[1..k -> PairKinds] : k \in 0..MaxPairs}

\* the device_id argument: an identifier the lab knows, and one it does not
TransferRefs == {"a", "zz"}

\* what resolve_device_identifier hands back: nothing, or a device_id
Resolutions == {"None", "a"}

\* what the inventory holds under the resolved device_id: nothing, a device
\* without an ip, a device with one
DeviceEntries == {"absent", "no_ip", "ok"}

\* the handle get_persistent_ssh_connection returns: none, one whose
\* process has exited, one whose process runs
Masters == {"none", "dead", "alive"}

\* how subprocess.run ends: exit status 0, another exit status,
\* TimeoutExpired, another exception
RunOutcomes == {"ok", "nonzero", "timeout", "raised"}

\* a key the result dict does not have
NoKey == "<no key>"

NoTransferResult ==
    [success |-> FALSE, error |-> <<>>, device_id |-> NoKey,
     total_files |-> 0, successful |-> 0, failed |-> 0, results |-> <<>>]

\* the dicts returned with "success": False; an error message is the
\* sequence of the pieces its f-string joins
TransferFailure(error, device_id) ==
    [NoTransferResult EXCEPT !.error = error, !.device_id = device_id]

TransferSuccess(device_id) ==
    [NoTransferResult EXCEPT !.success = TRUE, !.device_id = device_id]

\* the outcome of a run of checks: passed, or the dict to return
Passed == [ok |-> TRUE, result |-> NoTransferResult]

Rejected(result) == [ok |-> FALSE, result |-> result]

\* the validation of file_pairs
ValidatePairs(device_id, file_pairs) ==
    IF file_pairs = <<>>
    THEN Rejected(TransferFailure(<<"No files to transfer">>, device_id))
    ELSE IF \E i \in DOMAIN file_pairs : file_pairs[i] = "malformed"
    THEN Rejected(TransferFailure(<<"Invalid file pair format">>, device_id))
    ELSE Passed

\* the device lookup every operation starts with
ResolveDevice(device_id, resolved, device) ==
    IF resolved = "None"
    THEN Rejected(TransferFailure(<<"Device", device_id, "not found">>,
                                  device_id))
    ELSE IF device = "absent"
    THEN Rejected(TransferFailure(
             <<"Device", resolved, "not found", "in config">>, resolved))
    ELSE IF device = "no_ip"
    THEN Rejected(TransferFailure(
             <<"Device", resolved, "has no IP address">>, resolved))
    ELSE Passed

\* the checks of copy_file_to_device on its local path
CheckLocalFile(local) ==
    IF local = "missing"
    THEN Rejected(TransferFailure(<<"Local file", "not found">>, NoKey))
    ELSE IF local # "file"
    THEN Rejected(TransferFailure(<<"Local path is", "not a file">>, NoKey))
    ELSE Passed

\* the checks of sync_directory_to_device on its local path
CheckLocalDir(local) ==
    IF local = "missing"
    THEN Rejected(TransferFailure(<<"Local directory", "not found">>, NoKey))
    ELSE IF local # "dir"
    THEN Rejected(TransferFailure(<<"Local path is", "not a directory">>,
                                  NoKey))
    ELSE Passed

\* no check of the local paths
NoLocalCheck(file_pairs) == Passed

\* the check of copy_files_to_device_parallel on its local paths
CheckLocalFiles(file_pairs) ==
    IF \E i \in DOMAIN file_pairs : file_pairs[i] = "missing"
    THEN Rejected(TransferFailure(<<"Local files", "not found">>, NoKey))
    ELSE Passed

\* the first check of the list that rejects, in the order given
RECURSIVE FirstRejection(_)
FirstRejection(checks) ==
    IF checks = <<>> THEN Passed
    ELSE IF ~Head(checks).ok THEN Head(checks)
    ELSE FirstRejection(Tail(checks))

\* everything an operation does before its first remote step
Prechecks(op, device_id, resolved, device, local, file_pairs) ==
    LET found == ResolveDevice(device_id, resolved, device) IN
    CASE op = "copy_file_to_device" ->
           FirstRejection(<<found, CheckLocalFile(local)>>)
      [] op = "copy_file_from_device" -> found
      [] op = "sync_directory_to_device" ->
           FirstRejection(<<found, CheckLocalDir(local)>>)
      [] op = "copy_files_to_device_parallel" ->
           LET valid == ValidatePairs(device_id, file_pairs) IN
           IF ~valid.ok THEN valid
           ELSE FirstRejection(<<found, CheckLocalFiles(file_pairs)>>)

\* `master` alone: a handle was returned
HandleCounts(master) == master # "none"

\* `master and master.poll() is None`
UseMultiplexed(master) == master = "alive"

\* the ssh options of the transfer command
ConnectionOptions(op, master) ==
    IF UseMultiplexed(master)
    THEN IF op = "sync_directory_to_device"
         THEN {"ControlPath", "BatchMode=yes"}
         ELSE {"ControlPath"}
    ELSE {"StrictHostKeyChecking=no", "BatchMode=yes"}

DirectOptions == {"StrictHostKeyChecking=no", "BatchMode=yes"}

\* the program the operation runs
TransferProgram(op) ==
    IF op = "sync_directory_to_device" THEN "rsync" ELSE "scp"

\* one remote step: the program, its ssh options, how it ended and, in a
\* batch, the pair it was run for
Command(program, options, outcome, pair) ==
    [program |-> program, options |-> options, outcome |-> outcome,
     pair |-> pair]

\* the dict a single transfer returns after its run
TransferResult(outcome, resolved) ==
    CASE outcome = "ok" -> TransferSuccess(resolved)
      [] outcome = "nonzero" ->
           TransferFailure(<<"Failed to copy file", "stderr">>, resolved)
      [] outcome = "timeout" ->
           TransferFailure(<<"timed out">>, resolved)
      [] outcome = "raised" ->
           TransferFailure(<<"Failed to copy file", "exception">>, resolved)

\* the dict sync_directory_to_device returns when `which rsync` fails
RsyncCheckFailure(outcome, resolved) ==
    IF outcome = "nonzero"
    THEN TransferFailure(<<"rsync is not installed">>, resolved)
    ELSE TransferResult(outcome, resolved)

\* the worker of the batch: the dict for one pair
_copy_single_file(pair, outcome) ==
    [pair |-> pair, success |-> outcome = "ok",
     error |-> IF outcome = "ok" THEN "None" ELSE outcome]

\* a tally that counts the successes only
TallySuccesses(acc, result) ==
    [results |-> Append(acc.results, result),
     successful |-> acc.successful + (IF result.success THEN 1 ELSE 0),
     failed |-> acc.failed]

\* the body of the as_completed loop
Tally(acc, result) ==
    [results |-> Append(acc.results, result),
     successful |-> acc.successful + (IF result.success THEN 1 ELSE 0),
     failed |-> acc.failed + (IF result.success THEN 0 ELSE 1)]

\* the dict the batch returns
BatchResult(resolved, file_pairs, acc) ==
    [success |-> acc.failed = 0, error |-> <<>>, device_id |-> resolved,
     total_files |-> Len(file_pairs), successful |-> acc.successful,
     failed |-> acc.failed, results |-> acc.results]

\* a future of the pool: not run yet, or holding its worker's dict
Pending == [pair |-> 0, success |-> FALSE, error |-> "pending"]

\* the username argument: the default user, and another
Usernames == {"root", "admin"}

\* the inventory of the transfers: device "a" at one address, its ssh_port
\* left to the default
TransferIp == "10.0.0.5"

SshPort == 22

\* the key of the session an operation asks for: the arguments of
\* get_persistent_ssh_connection
SessionKey(ip, username, resolved_device_id, ssh_port) ==
    <<resolved_device_id, ip, ssh_port, username>>

\* control_path: f"/tmp/ssh_mcp_{resolved_device_id}_{ip.replace('.', '_')}"
ControlPath(resolved_device_id, ip) ==
    <<"/tmp/ssh_mcp", resolved_device_id, ip>>

\* a transfer command run over a control path: the key the operation asked
\* the session for, and the path it handed to scp or rsync
NoUse == [key |-> <<>>, path |-> <<>>]

MuxUse(resolved, username) ==
    [key |-> SessionKey(TransferIp, username, resolved, SshPort),
     path |-> ControlPath(resolved, TransferIp)]

\* no transfer is running; mux holds the last two transfer commands that
\* were run over a control path, the latest last
IdleTransfer ==
    [pc |-> "idle", op |-> "None", device_id |-> "None", local |-> "None",
     username |-> "None", mux |-> <<NoUse, NoUse>>,
     file_pairs |-> <<>>, resolved |-> "None", device |-> "None",
     master |-> "None",
     cmds |-> <<>>, futures |-> <<>>, collected |-> {},
     acc |-> [results |-> <<>>, successful |-> 0, failed |-> 0],
     result |-> NoTransferResult]

(***************************************************************************)
(* Connection pool: utils/ssh_pool.py, from its description                *)
(***************************************************************************)
\* the keys the workers ask sessions for: one device, either username
PoolKeys ==
    {SessionKey(TransferIp, username, "a", SshPort) : username \in Usernames}

\* most multiplexed sessions established in one run
MaxSessions == 3

Sessions == 1..MaxSessions

\* a worker outside get_persistent_ssh_connection; handle 0 is no handle
IdleWorker == [pc |-> "idle", key |-> <<>>, handle |-> 0]

\* the pool before any session: no handle registered (0), no session
\* established, the guard free
IdlePool ==
    [table |-> [key \in PoolKeys |-> 0], live |-> {}, owner |-> <<>>,
     guard |-> 0, w |-> [t \in Threads |-> IdleWorker]]

\* a worker enters whether or not another is inside
EnterUnguarded(guard) == TRUE

\* the handle table is guarded: one worker at a time is inside
MayEnter(guard) == guard = 0

\* is_alive(handle): the session is registered and its process runs
IsAlive(p, handle) == handle # 0 /\ handle \in p.live

\* the next session the pool establishes
NewSession(p) == Len(p.owner) + 1

(***************************************************************************)
(* State                                                                   *)
(***************************************************************************)
VARIABLES
    config,     \* the inventory file: whether it parses, and its devices
    creds,      \* the credential store: the kind of credential cached per IP
    vbi,        \* the running call of verify_device_by_ip, or IdleFrame
    fw,         \* the call of _get_firmware_version_from_ip, or IdleFirmware
    io          \* the last ssh exchange of the running call: the credential
                \* looked up and the outcome of the key and of the password
                \* attempt
VARIABLES
    call        \* the running call of verify_device_identity or of
                \* update_device_ip_if_changed, or IdleCall
VARIABLES
    now,        \* time.time(), in seconds
    cache_file, \* the content of device_cache.json
    thr,        \* the call of a cache operation each thread is in
    calls,      \* the number of cache operations called so far
    backup,     \* the content of device_cache.json.bak
    wiped,      \* history: the addresses whose entry a clear_device_cache
                \* removed and no cache_device_info has stored since
    run         \* a caller that identifies one address twice in succession
VARIABLES
    dir,        \* the cache directory as save_device_cache's steps leave it
    lock,       \* the thread that holds _cache_lock, or 0
    sv          \* the position of each thread in save_device_cache

VARIABLES
    xfer,       \* the running call of a file transfer operation, or IdleTransfer
    pool        \* the connection pool: its handle table, its sessions, its
                \* guard and the workers inside get_persistent_ssh_connection

vars ==
    <<config, creds, vbi, fw, io, call, now, cache_file, thr, calls, backup,
      wiped, run, dir, lock, sv, xfer, pool>>

\* the variables of the file transfers
xferVars == <<xfer, pool>>

\* the variables of the steps of save_device_cache
saveVars == <<dir, lock, sv>>

\* the variables of the identity cache
cacheVars == <<now, cache_file, thr, calls, backup, wiped, run>>

\* no cache file yet, and no caller
CacheIdle ==
    /\ now = 0
    /\ cache_file = NoCacheFile
    /\ thr = [t \in Threads |-> IdleThread]
    /\ calls = 0
    /\ backup = NoCacheFile
    /\ wiped = {}
    /\ run = IdleRun
    /\ dir = Directory(File(Complete(0), TRUE), NoFile)
    /\ lock = 0
    /\ sv = [t \in Threads |-> IdleSaver]
    /\ xfer = IdleTransfer
    /\ pool = IdlePool

\* the variables of the verification and update calls
verifyVars == <<call>>

NoIo == [cred |-> "none", key |-> NotRun, pw |-> NotRun]

\* the inventory the lab starts with
LabInventory ==
    CHOOSE inv \in Inventories :
        /\ Len(inv) = MaxDevices
        /\ inv[1].device_id = <<"a">>
        /\ inv[2].device_id = <<"a", "b">>

Init ==
    /\ config = [readable |-> TRUE, devices |-> LabInventory]
    /\ creds = [ip \in IPs |-> "none"]
    /\ vbi = IdleFrame
    /\ fw = IdleFirmware
    /\ io = NoIo
    /\ call = IdleCall
    /\ CacheIdle

(***************************************************************************)
(* The environment of the probe                                            *)
(***************************************************************************)
\* The inventory file is removed or left unparsable, or restored.  A call
\* of verify_device_by_ip reads the file once, in its match step, so a
\* change made earlier in the call is the same as one made just before that
\* step; likewise before the reads of lines 99 and 501.
BreakInventory ==
    /\ vbi.pc = "match" \/ call.pc \in {"load", "decide"}
    /\ config' = [config EXCEPT !.readable = ~@]
    /\ UNCHANGED <<creds, vbi, fw, io>>
    /\ UNCHANGED <<verifyVars, xferVars, cacheVars, saveVars>>

\* cache_credential_by_ip, credential_helper.py:28-40
cache_credential_by_ip(ip, kind) ==
    /\ vbi.pc = "idle"
    /\ fw.pc = "idle"
    /\ kind # "none"
    /\ creds' = [creds EXCEPT ![ip] = kind]
    /\ UNCHANGED <<config, vbi, fw, io>>
    /\ UNCHANGED <<verifyVars, xferVars, cacheVars, saveVars>>

(***************************************************************************)
(* The steps of verify_device_by_ip                                        *)
(***************************************************************************)
VbiCall(ip) ==
    /\ vbi.pc = "idle"
    /\ fw.pc = "idle"
    /\ vbi' = NewFrame(ip)
    /\ io' = NoIo
    /\ UNCHANGED <<config, creds, fw>>
    /\ UNCHANGED <<verifyVars, xferVars, cacheVars, saveVars>>

\* the password attempt is made only after a failed key attempt, with a
\* cached password
PasswordProcs(procs, key, cred) ==
    IF key.kind = "done" /\ key.returncode # 0 /\ HasPassword(cred)
    THEN procs ELSE {NotRun}

VbiHostname ==
    /\ vbi.pc = "hostname"
    /\ LET cred == get_credential(creds, vbi.ip)
       IN  \E key \in HostnameProcs :
            \E pw \in PasswordProcs(HostnameProcs, key, cred) :
                /\ vbi' = HostnameStep(vbi, key, cred, pw)
                /\ io' = [cred |-> cred, key |-> key, pw |-> pw]
    /\ UNCHANGED <<config, creds, fw>>
    /\ UNCHANGED <<verifyVars, xferVars, cacheVars, saveVars>>

VbiUid ==
    /\ vbi.pc = "uid"
    /\ LET cred == get_credential(creds, vbi.ip)
       IN  \E key \in UidProcs :
            \E pw \in PasswordProcs(UidProcs, key, cred) :
                /\ vbi' = UidStep(vbi, key, cred, pw)
                /\ io' = [cred |-> cred, key |-> key, pw |-> pw]
    /\ UNCHANGED <<config, creds, fw>>
    /\ UNCHANGED <<verifyVars, xferVars, cacheVars, saveVars>>

VbiMatch ==
    /\ vbi.pc = "match"
    /\ vbi' = MatchStep(vbi, config)
    /\ io' = NoIo
    /\ UNCHANGED <<config, creds, fw>>
    /\ UNCHANGED <<verifyVars, xferVars, cacheVars, saveVars>>

VbiReturn ==
    /\ vbi.pc = "done"
    /\ vbi' = IdleFrame
    /\ io' = NoIo
    /\ UNCHANGED <<config, creds, fw>>
    /\ UNCHANGED <<verifyVars, xferVars, cacheVars, saveVars>>

\* one call of _get_firmware_version_from_ip; the caller makes it after
\* verify_device_by_ip has returned
FwCall(ip) ==
    /\ vbi.pc = "idle"
    /\ fw.pc = "idle"
    /\ LET cred == get_credential(creds, ip)
       IN  \E key \in FirmwareProcs :
            \E pw \in PasswordProcs(FirmwareProcs, key, cred) :
                \E interactive \in FirmwareProcs :
                    /\ fw' = get_firmware_version_from_ip(ip, key, cred, pw,
                                                          interactive)
                    /\ io' = [cred |-> cred, key |-> key, pw |-> pw]
    /\ UNCHANGED <<config, creds, vbi>>
    /\ UNCHANGED <<verifyVars, xferVars, cacheVars, saveVars>>

FwReturn ==
    /\ fw.pc = "done"
    /\ fw' = IdleFirmware
    /\ io' = NoIo
    /\ UNCHANGED <<config, creds, vbi>>
    /\ UNCHANGED <<verifyVars, xferVars, cacheVars, saveVars>>

NextProbe ==
    \/ BreakInventory
    \/ \E ip \in IPs, kind \in CredKinds : cache_credential_by_ip(ip, kind)
    \/ \E ip \in IPs : VbiCall(ip)
    \/ VbiHostname
    \/ VbiUid
    \/ VbiMatch
    \/ VbiReturn
    \/ \E ip \in IPs : FwCall(ip)
    \/ FwReturn

SpecProbe == Init /\ [][NextProbe]_vars

(***************************************************************************)
(* The match step alone, over every probed hostname, unique id and         *)
(* inventory                                                               *)
(***************************************************************************)
\* the frame a call is in when every command succeeded by key, `hostname`
\* printing h and each unique-id command printing u
RECURSIVE RunUid(_, _)
RunUid(st, u) ==
    IF st.pc # "uid" THEN st
    ELSE RunUid(UidStep(st, CompletedProcess(0, u, {}, {}), "none", NotRun), u)

ProbedFrame(ip, h, u) ==
    RunUid(HostnameStep(NewFrame(ip), CompletedProcess(0, h, {}, {}), "none",
                        NotRun), u)

InitScore ==
    /\ \E inv \in Inventories : config = [readable |-> TRUE, devices |-> inv]
    /\ creds = [ip \in IPs |-> "none"]
    /\ \E ip \in IPs, h \in HostnameStdouts, u \in UidStdouts :
        vbi = ProbedFrame(ip, h, u)
    /\ fw = IdleFirmware
    /\ io = NoIo
    /\ call = IdleCall
    /\ CacheIdle

NextScore == VbiMatch \/ VbiReturn

SpecScore == InitScore /\ [][NextScore]_vars

(***************************************************************************)
(* The steps of verify_device_identity and update_device_ip_if_changed     *)
(***************************************************************************)
\* the variables of the probe by IP
probeVars == <<creds, vbi, fw, io>>

VerifyCall(ref, ip) ==
    /\ call.pc = "idle"
    /\ call' = NewCall("verify", ref, ip)
    /\ UNCHANGED <<config, probeVars, cacheVars, saveVars, xferVars>>

UpdateCall(ref, new_ip) ==
    /\ call.pc = "idle"
    /\ call' = NewCall("update", ref, new_ip)
    /\ UNCHANGED <<config, probeVars, cacheVars, saveVars, xferVars>>

CallResolve ==
    /\ call.pc = "resolve"
    /\ call' = VdiResolve(call, config)
    /\ UNCHANGED <<config, probeVars, cacheVars, saveVars, xferVars>>

CallLoad ==
    /\ call.pc = "load"
    /\ call' = VdiLoad(call, config)
    /\ UNCHANGED <<config, probeVars, cacheVars, saveVars, xferVars>>

CallHostname ==
    /\ call.pc = "hostname"
    /\ LET endpoint == SshEndpoint(config, call.device_id)
       IN  \E hostname_result \in SshResultsAt(endpoint, HostnameStdouts) :
            call' = [VdiHostnameStep(call, hostname_result)
                        EXCEPT !.endpoint = endpoint]
    /\ UNCHANGED <<config, probeVars, cacheVars, saveVars, xferVars>>

CallUid ==
    /\ call.pc = "uid"
    /\ LET endpoint == SshEndpoint(config, call.device_id)
       IN  \E uid_result \in SshResultsAt(endpoint, UidStdouts) :
            call' = [VdiUidStep(call, uid_result)
                        EXCEPT !.endpoint = endpoint]
    /\ UNCHANGED <<config, probeVars, cacheVars, saveVars, xferVars>>

UpdateDecide ==
    /\ call.pc = "decide"
    /\ \E write \in WriteOutcomes :
        LET after == update_device_ip_if_changed(call, config, write)
        IN  /\ call' = after.call
            /\ config' = after.config
    /\ UNCHANGED <<probeVars, cacheVars, saveVars, xferVars>>

\* the call returns, or its exception reaches the caller
CallEnd ==
    /\ call.pc \in {"done", "raised"}
    /\ call' = IdleCall
    /\ UNCHANGED <<config, probeVars, cacheVars, saveVars, xferVars>>

InitVerify ==
    /\ \E inv \in Inventories : config = [readable |-> TRUE, devices |-> inv]
    /\ creds = [ip \in IPs |-> "none"]
    /\ vbi = IdleFrame
    /\ fw = IdleFirmware
    /\ io = NoIo
    /\ call = IdleCall
    /\ CacheIdle

NextVerify ==
    \/ BreakInventory
    \/ \E ref \in DeviceRefs, ip \in IpArgs : VerifyCall(ref, ip)
    \/ \E ref \in DeviceRefs, new_ip \in IpArgs : UpdateCall(ref, new_ip)
    \/ CallResolve
    \/ CallLoad
    \/ CallHostname
    \/ CallUid
    \/ UpdateDecide
    \/ CallEnd

SpecVerify == InitVerify /\ [][NextVerify]_vars

(***************************************************************************)
(* The steps of the cache operations                                       *)
(***************************************************************************)
\* most cache operations called in one behaviour
MaxCalls == 2

\* the clock is read up to this many seconds after the start, and after the
\* expiry of an entry written at the start
MaxLate == 1

\* the times the clock is read at
ClockValues ==
    {base + late : base \in {0, CACHE_EXPIRY_SECONDS}, late \in 0..MaxLate}

\* a device_info that carries only an error, as a caller other than
\* identify_and_cache_device may pass it
ErrorOnlyInfo ==
    DeviceInfo({"ssh_error", "ssh_error_type"},
               [EmptyEntry EXCEPT !.ssh_error = SshErrorOf("timeout"),
                                  !.ssh_error_type = "timeout"])

\* the device_info dicts cache_device_info is called with: those
\* identify_and_cache_device builds, and one that carries only an error
MergeInputs(ip) ==
    {IdentifiedInfo(ip, config, answer) : answer \in DeviceAnswers}
        \cup {ErrorOnlyInfo}

\* time passes; the clock is read by get_cached_device_info and by
\* cache_device_info only, so time that passes earlier is time that passes
\* just before one of them reads it
Tick(seconds) ==
    /\ \E t \in Threads : thr[t].pc \in {"get", "save"}
    /\ now + seconds \in ClockValues
    /\ now' = now + seconds
    /\ UNCHANGED <<config, probeVars, verifyVars, xferVars, saveVars, cache_file, thr, calls,
                   backup, wiped,
                   run>>

\* a thread calls an operation; threads being alike, the idle thread of
\* least number takes the call
CacheCall(t, frame) ==
    /\ thr[t].pc = "idle"
    /\ \A u \in Threads : u < t => thr[u].pc # "idle"
    /\ calls < MaxCalls
    /\ calls' = calls + 1
    /\ thr' = [thr EXCEPT ![t] = frame]
    /\ UNCHANGED <<config, probeVars, verifyVars, xferVars, saveVars, now, cache_file, backup,
                   wiped,
                   run>>

\* get_cached_device_info(ip)
GetCall(t, ip) ==
    CacheCall(t, ThreadFrame("get", "get", ip, IdleThread.device_info))

\* cache_device_info(ip, device_info), with a device_info as
\* identify_and_cache_device builds it, or one that carries only an error
MergeCall(t, ip) ==
    /\ thr[t].pc = "idle"
    /\ calls < MaxCalls
    /\ \E device_info \in MergeInputs(ip) :
        CacheCall(t, ThreadFrame("load", "merge", ip, device_info))

\* identify_and_cache_device(ip)
IdentifyCall(t, ip) ==
    CacheCall(t, ThreadFrame("get", "identify", ip, IdleThread.device_info))

\* a load of the cache file by thread t, lines 38-65: the thread goes on at
\* pc with what `then` makes of the dict, or the call ends in the exception
\* read() raised; a file json rejects is copied to the backup, or the copy
\* fails
LoadStep(t, then(_)) ==
    /\ thr' = IF LoadRaises(cache_file)
              THEN [thr EXCEPT ![t].pc = "raised"]
              ELSE [thr EXCEPT ![t] = then(load_device_cache(cache_file))]
    /\ \E copied \in {cache_file.kind = "garbled", FALSE} :
            backup' = BackupAfterLoad(cache_file, backup, copied)
    /\ UNCHANGED <<config, probeVars, verifyVars, xferVars, saveVars, now, cache_file, calls,
                   wiped,
                   run>>

\* get_cached_device_info, lines 133-145, and for identify_and_cache_device
\* the test of lines 341-348 on what it returned
CacheGetStep(t) ==
    /\ thr[t].pc = "get"
    /\ LET after(cache) ==
            LET cached_info == get_cached_device_info(cache, thr[t].ip, now)
            IN  [thr[t] EXCEPT
                    !.pc = IF /\ thr[t].op = "identify"
                              /\ \/ cached_info.none
                                 \/ NeedsReverify(cached_info.entry)
                           THEN "probe" ELSE "done",
                    !.ret = cached_info]
       IN  LoadStep(t, after)

\* lines 352-368: the device is probed and device_info built
IdentifyProbe(t) ==
    /\ thr[t].pc = "probe"
    /\ \E answer \in DeviceAnswers :
        thr' = [thr EXCEPT
                ![t].pc = "load",
                ![t].device_info = IdentifiedInfo(thr[t].ip, config, answer)]
    /\ UNCHANGED <<config, probeVars, verifyVars, xferVars, saveVars, now, cache_file, calls,
                   backup, wiped,
                   run>>

\* line 198: cache = load_device_cache(), outside the lock
CacheLoad(t) ==
    /\ thr[t].pc = "load"
    /\ LET after(cache) == [thr[t] EXCEPT !.pc = "save", !.cache = cache]
       IN  LoadStep(t, after)

\* save_device_cache(cache) by thread t, lines 68-120, as readers of the file
\* see it: the file is replaced in one step or (the directory missing, or
\* both attempts failing) left as it is; the call returns either way
WriteStep(t, cache, frame) ==
    /\ \E saved \in BOOLEAN :
        /\ cache_file' = IF saved THEN CacheFile("json", cache) ELSE cache_file
        /\ thr' = [thr EXCEPT ![t] = [frame EXCEPT !.pc = "done",
                                                   !.cache = cache,
                                                   !.saved = saved]]
        /\ wiped' = IF saved /\ frame.op \in {"merge", "identify"}
                     THEN wiped \ {frame.ip} ELSE wiped
    /\ UNCHANGED <<config, probeVars, verifyVars, xferVars, saveVars, now, calls, backup,
                   run>>

\* lines 201-223: the merge into the loaded dict, and save_device_cache;
\* identify_and_cache_device then returns its device_info
CacheSave(t) ==
    /\ thr[t].pc = "save"
    /\ LET f == thr[t]
       IN  WriteStep(t,
                CachePut(f.cache, f.ip,
                         MergedEntry(f.cache, f.ip, f.device_info, now)),
                [f EXCEPT !.ret = IF f.op = "identify"
                                  THEN Returned(f.device_info.values)
                                  ELSE ReturnedNone])

\* update_cached_friendly_name(ip, friendly_name)
RenameCall(t, ip, friendly_name) ==
    CacheCall(t, ThreadFrame("rename_load", "rename", ip,
                    DeviceInfo({"friendly_name"},
                        [EmptyEntry EXCEPT !.friendly_name = friendly_name])))

\* lines 159-163: the cache is loaded, outside the lock; an address that is
\* not in it ends the call with False
RenameLoad(t) ==
    /\ thr[t].pc = "rename_load"
    /\ LET after(cache) ==
            [thr[t] EXCEPT
                !.pc = IF thr[t].ip \in DOMAIN cache THEN "rename_save"
                       ELSE "done",
                !.cache = cache,
                !.flag = FALSE]
       IN  LoadStep(t, after)

\* lines 165-170: the name is set in the loaded dict, the dict saved, and True
\* returned
RenameSave(t) ==
    /\ thr[t].pc = "rename_save"
    /\ LET f == thr[t]
       IN  WriteStep(t,
                Renamed(f.cache, f.ip, InfoGet(f.device_info, "friendly_name"),
                        now),
                [f EXCEPT !.flag = TRUE])

\* clear_device_cache()
ClearCall(t) ==
    CacheCall(t, ThreadFrame("clear_exists", "clear", "None",
                             IdleThread.device_info))

\* lines 378-379: DEVICE_CACHE_FILE.exists(), with no lock held
ClearExists(t) ==
    /\ thr[t].pc = "clear_exists"
    /\ thr' = [thr EXCEPT ![t].pc = IF cache_file.kind = "absent" THEN "done"
                                    ELSE "clear_unlink"]
    /\ UNCHANGED <<config, probeVars, verifyVars, xferVars, saveVars, now, cache_file, calls,
                   backup, wiped,
                   run>>

\* line 380: unlink() removes the file, or raises FileNotFoundError when
\* another thread removed it since the test
ClearUnlink(t) ==
    /\ thr[t].pc = "clear_unlink"
    /\ thr' = [thr EXCEPT ![t].pc = IF cache_file.kind = "absent" THEN "raised"
                                    ELSE "done"]
    /\ cache_file' = NoCacheFile
    /\ wiped' = wiped \cup DOMAIN load_device_cache(cache_file)
    /\ UNCHANGED <<config, probeVars, verifyVars, xferVars, saveVars, now, calls, backup,
                   run>>

\* the call is over: it returned, or raised
ThreadReturn(t) ==
    /\ thr[t].pc \in {"done", "raised"}
    /\ thr' = [thr EXCEPT ![t] = IdleThread]
    /\ UNCHANGED <<config, probeVars, verifyVars, xferVars, saveVars, now, cache_file, calls,
                   backup, wiped,
                   run>>

NextCache ==
    \/ \E seconds \in {1, CACHE_EXPIRY_SECONDS} : Tick(seconds)
    \/ \E t \in Threads, ip \in IPs : GetCall(t, ip)
    \/ \E t \in Threads, ip \in IPs : MergeCall(t, ip)
    \/ \E t \in Threads, ip \in IPs : IdentifyCall(t, ip)
    \/ \E t \in Threads : CacheGetStep(t)
    \/ \E t \in Threads : IdentifyProbe(t)
    \/ \E t \in Threads : CacheLoad(t)
    \/ \E t \in Threads : CacheSave(t)
    \/ \E t \in Threads : ThreadReturn(t)

SpecCache == Init /\ [][NextCache]_vars

(***************************************************************************)
(* The cache operations on a file that is already there                    *)
(***************************************************************************)
\* the cache file as an earlier run of the program, or a fault of the disk,
\* left it: white space, text json rejects, bytes that are no text, or the
\* json of one identified device and of one that could not be reached
StoredFiles ==
    LET ip1 == CHOOSE ip \in IPs : TRUE
        ip2 == CHOOSE ip \in IPs : ip # ip1
        config0 == [readable |-> TRUE, devices |-> LabInventory]
        found == CHOOSE a \in DeviceAnswers :
                    IdentifiedInfo(ip1, config0, a).values.device_id # None
        lost == CHOOSE a \in DeviceAnswers :
                    IdentifiedInfo(ip2, config0, a).values.ssh_error # "None"
        one == CachePut(EmptyCache, ip1,
                    MergedEntry(EmptyCache, ip1,
                                IdentifiedInfo(ip1, config0, found), 0))
    IN  {CacheFile("empty", EmptyCache),
         CacheFile("garbled", EmptyCache),
         CacheFile("undecodable", EmptyCache),
         CacheFile("json", one),
         CacheFile("json",
            CachePut(one, ip2,
                MergedEntry(one, ip2, IdentifiedInfo(ip2, config0, lost), 0)))}

\* the names update_cached_friendly_name is called with
FriendlyNames == {<<"z">>}

InitStore ==
    /\ config = [readable |-> TRUE, devices |-> LabInventory]
    /\ creds = [ip \in IPs |-> "none"]
    /\ vbi = IdleFrame
    /\ fw = IdleFirmware
    /\ io = NoIo
    /\ call = IdleCall
    /\ now = 0
    /\ cache_file \in StoredFiles
    /\ thr = [t \in Threads |-> IdleThread]
    /\ calls = 0
    /\ backup = NoCacheFile
    /\ wiped = {}
    /\ run = IdleRun
    /\ dir = Directory(File(Complete(0), TRUE), NoFile)
    /\ lock = 0
    /\ sv = [t \in Threads |-> IdleSaver]
    /\ xfer = IdleTransfer
    /\ pool = IdlePool

NextStore ==
    \/ \E t \in Threads, ip \in IPs : GetCall(t, ip)
    \/ \E t \in Threads, ip \in IPs : MergeCall(t, ip)
    \/ \E t \in Threads, ip \in IPs, friendly_name \in FriendlyNames :
            RenameCall(t, ip, friendly_name)
    \/ \E t \in Threads : ClearCall(t)
    \/ \E t \in Threads : CacheGetStep(t)
    \/ \E t \in Threads : CacheLoad(t)
    \/ \E t \in Threads : CacheSave(t)
    \/ \E t \in Threads : RenameLoad(t)
    \/ \E t \in Threads : RenameSave(t)
    \/ \E t \in Threads : ClearExists(t)
    \/ \E t \in Threads : ClearUnlink(t)
    \/ \E t \in Threads : ThreadReturn(t)

SpecStore == InitStore /\ [][NextStore]_vars

(***************************************************************************)
(* Two identifications of one address in succession                        *)
(***************************************************************************)
\* the inventories of the caller: the lab's, its first device alone, none
RunInventories == {LabInventory, SubSeq(LabInventory, 1, 1), <<>>}

\* the cache files the caller starts on: every stored file that can be read
\* as text, and no file
RunFiles == {file \in StoredFiles : ~LoadRaises(file)} \cup {NoCacheFile}

\* one call of identify_and_cache_device by the caller, the first or the
\* second
RunCall(from, to, ip, answer) ==
    /\ run.pc = from
    /\ \E saved \in BOOLEAN :
        LET r == identify_and_cache_device(cache_file, ip, config, answer, now,
                                           saved)
        IN  /\ cache_file' = r.file
            /\ run' = IF from = "idle"
                      THEN [IdleRun EXCEPT !.pc = to, !.ip = ip,
                                           !.answer = answer, !.first = r.ret,
                                           !.probed[1] = r.probed]
                      ELSE [run EXCEPT !.pc = to, !.second = r.ret,
                                       !.probed[2] = r.probed]
    /\ \E copied \in {cache_file.kind = "garbled", FALSE} :
            backup' = BackupAfterLoad(cache_file, backup, copied)
    /\ UNCHANGED <<config, probeVars, verifyVars, xferVars, saveVars, now, thr, calls,
                   wiped>>

\* the caller identifies an address
IdentifyOnce(ip, answer) == RunCall("idle", "once", ip, answer)

\* and at once identifies it again, the device answering as before
IdentifyAgain == RunCall("once", "twice", run.ip, run.answer)

InitIdentify ==
    /\ config \in {[readable |-> TRUE, devices |-> devices] :
                        devices \in RunInventories}
    /\ creds = [ip \in IPs |-> "none"]
    /\ vbi = IdleFrame
    /\ fw = IdleFirmware
    /\ io = NoIo
    /\ call = IdleCall
    /\ now = 0
    /\ cache_file \in RunFiles
    /\ thr = [t \in Threads |-> IdleThread]
    /\ calls = 0
    /\ backup = NoCacheFile
    /\ wiped = {}
    /\ run = IdleRun
    /\ dir = Directory(File(Complete(0), TRUE), NoFile)
    /\ lock = 0
    /\ sv = [t \in Threads |-> IdleSaver]
    /\ xfer = IdleTransfer
    /\ pool = IdlePool

NextIdentify ==
    \/ \E ip \in IPs, answer \in DeviceAnswers : IdentifyOnce(ip, answer)
    \/ IdentifyAgain

SpecIdentify == InitIdentify /\ [][NextIdentify]_vars

(***************************************************************************)
(* The file transfer operations                                            *)
(***************************************************************************)
\* no other variable changes while a transfer runs
TransferFrame ==
    UNCHANGED <<config, probeVars, verifyVars, cacheVars, saveVars, pool>>

IsBatch(op) == op = "copy_files_to_device_parallel"

\* a caller enters one of the four operations
TransferCall(op, device_id, local, file_pairs, username) ==
    /\ xfer.pc = "idle"
    /\ xfer' = [IdleTransfer EXCEPT !.pc = "called", !.op = op,
                   !.device_id = device_id, !.local = local,
                   !.file_pairs = file_pairs, !.username = username,
                   !.mux = xfer.mux]
    /\ TransferFrame

\* the checks before the first remote step; what the resolver and the
\* inventory answer is theirs to say.  copy_file_from_device then creates
\* the directory of its local path, outside its try: a directory that
\* cannot be created ends the call with the exception
TransferPrecheck ==
    /\ xfer.pc = "called"
    /\ \E resolved \in Resolutions, device \in DeviceEntries,
          made \in IF xfer.op = "copy_file_from_device"
                   THEN BOOLEAN ELSE {TRUE} :
        LET checked == Prechecks(xfer.op, xfer.device_id, resolved, device,
                                 xfer.local, xfer.file_pairs) IN
        xfer' = IF ~checked.ok
                THEN [xfer EXCEPT !.pc = "done", !.resolved = resolved,
                                  !.device = device,
                                  !.result = checked.result]
                ELSE [xfer EXCEPT !.resolved = resolved, !.device = device,
                         !.pc = IF ~made THEN "raised"
                                ELSE IF xfer.op = "sync_directory_to_device"
                                THEN "which" ELSE "acquire"]
    /\ TransferFrame

\* sync_directory_to_device asks the device for rsync, over a connection of
\* its own, before it asks for the session
RsyncCheck ==
    /\ xfer.pc = "which"
    /\ \E outcome \in RunOutcomes :
        LET cmd == Command("ssh", DirectOptions, outcome, 0) IN
        xfer' = IF outcome = "ok"
                THEN [xfer EXCEPT !.pc = "acquire",
                                  !.cmds = Append(@, cmd)]
                ELSE [xfer EXCEPT !.pc = "done", !.cmds = Append(@, cmd),
                         !.result = RsyncCheckFailure(outcome, xfer.resolved)]
    /\ TransferFrame

\* get_persistent_ssh_connection returns a handle or none, or raises: the
\* single operations call it inside their try, the batch outside any
Acquire ==
    /\ xfer.pc = "acquire"
    /\ \E master \in Masters \cup {"raised"} :
        LET cmd == Command("session", {}, master, 0) IN
        xfer' = IF master = "raised"
                THEN IF IsBatch(xfer.op)
                     THEN [xfer EXCEPT !.pc = "raised",
                                       !.cmds = Append(@, cmd)]
                     ELSE [xfer EXCEPT !.pc = "done", !.cmds = Append(@, cmd),
                              !.result = TransferResult("raised",
                                                        xfer.resolved)]
                ELSE [xfer EXCEPT !.cmds = Append(@, cmd), !.master = master,
                         !.pc = IF IsBatch(xfer.op) THEN "pool" ELSE "run",
                         !.futures = IF IsBatch(xfer.op)
                                     THEN [i \in DOMAIN xfer.file_pairs |->
                                              Pending]
                                     ELSE <<>>]
    /\ TransferFrame

\* the handle as poll() finds it now: a process that ran may have exited
Polled(master) == IF master = "alive" THEN {"alive", "dead"} ELSE {master}

\* the control path uses after a command run with the handle as polled
UsesAfter(x, master) ==
    IF UseMultiplexed(master)
    THEN <<x.mux[2], MuxUse(x.resolved, x.username)>>
    ELSE x.mux

\* a single operation builds its command, runs it and returns
TransferRun ==
    /\ xfer.pc = "run"
    /\ \E master \in Polled(xfer.master), outcome \in RunOutcomes :
        xfer' = [xfer EXCEPT !.pc = "done", !.master = master,
                    !.mux = UsesAfter(xfer, master),
                    !.cmds = Append(@, Command(TransferProgram(xfer.op),
                                 ConnectionOptions(xfer.op, master),
                                 outcome, 0)),
                    !.result = TransferResult(outcome, xfer.resolved)]
    /\ TransferFrame

\* a worker of the pool runs _copy_single_file for one pair, in any order
WorkerRun(i) ==
    /\ xfer.pc = "pool"
    /\ i \in DOMAIN xfer.futures
    /\ xfer.futures[i] = Pending
    /\ \E master \in Polled(xfer.master), outcome \in RunOutcomes :
        xfer' = [xfer EXCEPT !.master = master,
                    !.mux = UsesAfter(xfer, master),
                    !.cmds = Append(@, Command("scp",
                                 ConnectionOptions(xfer.op, master),
                                 outcome, i)),
                    !.futures[i] = _copy_single_file(i, outcome)]
    /\ TransferFrame

\* the as_completed loop takes a finished future, in the order they finish
Collect(i) ==
    /\ xfer.pc = "pool"
    /\ i \in DOMAIN xfer.futures
    /\ xfer.futures[i] # Pending
    /\ i \notin xfer.collected
    /\ xfer' = [xfer EXCEPT !.collected = @ \cup {i},
                            !.acc = Tally(@, xfer.futures[i])]
    /\ TransferFrame

\* every future is collected: the batch returns its record
BatchReturn ==
    /\ xfer.pc = "pool"
    /\ xfer.collected = DOMAIN xfer.futures
    /\ xfer' = [xfer EXCEPT !.pc = "done",
                   !.result = BatchResult(xfer.resolved, xfer.file_pairs,
                                          xfer.acc)]
    /\ TransferFrame

\* the caller has the result, or the exception
TransferEnd ==
    /\ xfer.pc \in {"done", "raised"}
    /\ xfer' = [IdleTransfer EXCEPT !.mux = xfer.mux]
    /\ TransferFrame

NextTransfer ==
    \/ \E op \in TransferOps, device_id \in TransferRefs,
          local \in LocalKinds, file_pairs \in FilePairLists :
          TransferCall(op, device_id, local, file_pairs, "root")
    \/ TransferPrecheck
    \/ RsyncCheck
    \/ Acquire
    \/ TransferRun
    \/ \E i \in 1..MaxPairs : WorkerRun(i)
    \/ \E i \in 1..MaxPairs : Collect(i)
    \/ BatchReturn
    \/ TransferEnd

SpecTransfer == Init /\ [][NextTransfer]_vars

\* transfers of one file to one device, under either username
NextSession ==
    \/ \E op \in TransferOps, username \in Usernames :
          TransferCall(op, "a", IF op = "sync_directory_to_device"
                                THEN "dir" ELSE "file",
                       <<"file">>, username)
    \/ TransferPrecheck
    \/ RsyncCheck
    \/ Acquire
    \/ TransferRun
    \/ \E i \in 1..MaxPairs : WorkerRun(i)
    \/ \E i \in 1..MaxPairs : Collect(i)
    \/ BatchReturn
    \/ TransferEnd

SpecSession == Init /\ [][NextSession]_vars

(***************************************************************************)
(* The connection pool                                                     *)
(***************************************************************************)
\* no other variable changes while the pool works
PoolFrame ==
    UNCHANGED <<config, probeVars, verifyVars, cacheVars, saveVars, xfer>>

\* worker t calls acquire for a key
PoolAcquire(t, key) ==
    /\ pool.w[t].pc = "idle"
    /\ pool' = [pool EXCEPT !.w[t] = [pc |-> "wait", key |-> key,
                                      handle |-> 0]]
    /\ PoolFrame

\* it enters the guarded section
PoolEnter(t) ==
    /\ pool.w[t].pc = "wait"
    /\ MayEnter(pool.guard)
    /\ pool' = [pool EXCEPT !.guard = t, !.w[t].pc = "lookup"]
    /\ PoolFrame

\* it looks its key up: a registered handle that is alive is returned,
\* otherwise a session is to be established
PoolLookup(t) ==
    /\ pool.w[t].pc = "lookup"
    /\ LET handle == pool.table[pool.w[t].key] IN
        pool' = IF IsAlive(pool, handle)
                THEN [pool EXCEPT !.w[t].pc = "leave",
                                  !.w[t].handle = handle]
                ELSE [pool EXCEPT !.w[t].pc = "establish"]
    /\ PoolFrame

\* it establishes a multiplexed session, which may fail
PoolEstablish(t) ==
    /\ pool.w[t].pc = "establish"
    /\ \E ok \in BOOLEAN :
        pool' = IF ok /\ NewSession(pool) <= MaxSessions
                THEN [pool EXCEPT
                        !.live = @ \cup {NewSession(pool)},
                        !.owner = Append(@, pool.w[t].key),
                        !.w[t].handle = NewSession(pool),
                        !.w[t].pc = "register"]
                ELSE [pool EXCEPT !.w[t].pc = "leave"]
    /\ PoolFrame

\* and registers it under its key
PoolRegister(t) ==
    /\ pool.w[t].pc = "register"
    /\ pool' = [pool EXCEPT !.table[pool.w[t].key] = pool.w[t].handle,
                            !.w[t].pc = "leave"]
    /\ PoolFrame

\* it leaves the guarded section with the handle, or with none
PoolLeave(t) ==
    /\ pool.w[t].pc = "leave"
    /\ pool' = [pool EXCEPT !.guard = IF @ = t THEN 0 ELSE @,
                            !.w[t].pc = "returned"]
    /\ PoolFrame

\* the caller has used the handle
PoolDone(t) ==
    /\ pool.w[t].pc = "returned"
    /\ pool' = [pool EXCEPT !.w[t] = IdleWorker]
    /\ PoolFrame

\* the process of a session exits
SessionDies(session) ==
    /\ session \in pool.live
    /\ pool' = [pool EXCEPT !.live = @ \ {session}]
    /\ PoolFrame

NextPool ==
    \/ \E t \in Threads, key \in PoolKeys : PoolAcquire(t, key)
    \/ \E t \in Threads : PoolEnter(t)
    \/ \E t \in Threads : PoolLookup(t)
    \/ \E t \in Threads : PoolEstablish(t)
    \/ \E t \in Threads : PoolRegister(t)
    \/ \E t \in Threads : PoolLeave(t)
    \/ \E t \in Threads : PoolDone(t)
    \/ \E session \in Sessions : SessionDies(session)

SpecPool == Init /\ [][NextPool]_vars

(***************************************************************************)
(* The steps of save_device_cache                                          *)
(***************************************************************************)
\* Every step below leaves the other specifications' variables alone.
SaveFrame == UNCHANGED <<config, probeVars, verifyVars, xferVars, cacheVars>>

\* thread t moves to pc, the directory becoming d
SaveStep(t, from, to, d) ==
    /\ sv[t].pc = from
    /\ sv' = [sv EXCEPT ![t].pc = to]
    /\ dir' = d
    /\ UNCHANGED lock
    /\ SaveFrame

\* save_device_cache(cache) is called
SaveCall(t) == SaveStep(t, "idle", "lock", dir)

\* line 71: with _cache_lock
AcquireLock(t) ==
    /\ sv[t].pc = "lock"
    /\ lock = 0
    /\ lock' = t
    /\ sv' = [sv EXCEPT ![t].pc = "mkdir"]
    /\ UNCHANGED dir
    /\ SaveFrame

\* lines 73-79: the directory is there, or the call returns
MakeDir(t) ==
    \/ SaveStep(t, "mkdir", "open", dir)
    \/ SaveStep(t, "mkdir", "unlock", dir)

\* line 87
OpenTemp(t) ==
    \/ SaveStep(t, "open", "dump", OpenForWrite(dir, t))
    \/ SaveStep(t, "open", "cleanup", dir)

\* lines 88-89; a write that fails leaves what was written
DumpTemp(t) ==
    \/ SaveStep(t, "dump", "fsync", Dump(dir, t))
    \/ SaveStep(t, "dump", "cleanup", dir)

\* lines 90-91
FsyncTemp(t) ==
    \/ SaveStep(t, "fsync", "replace", Fsync(dir))
    \/ SaveStep(t, "fsync", "cleanup", dir)

\* lines 93-102: the checks pass on a file that was dumped; the rename is
\* made or refused
ReplaceTemp(t) ==
    \/ SaveStep(t, "replace", "unlock", Replace(dir))
    \/ SaveStep(t, "replace", "cleanup", dir)

\* lines 103-110
CleanUp(t) == SaveStep(t, "cleanup", "retry", Unlink(dir))

\* lines 112-116: the retry writes the file again, without fsync
RetryDump(t) ==
    \/ SaveStep(t, "retry", "retry_replace", Dump(OpenForWrite(dir, t), t))
    \/ SaveStep(t, "retry", "unlock", OpenForWrite(dir, t))
    \/ SaveStep(t, "retry", "unlock", dir)

\* lines 117-120
RetryReplace(t) ==
    \/ SaveStep(t, "retry_replace", "unlock", Replace(dir))
    \/ SaveStep(t, "retry_replace", "unlock", dir)

\* the lock is released as the with block is left
ReleaseLock(t) ==
    /\ sv[t].pc = "unlock"
    /\ lock' = 0
    /\ sv' = [sv EXCEPT ![t].pc = "idle"]
    /\ UNCHANGED dir
    /\ SaveFrame

Alive == \A t \in Threads : sv[t].pc # "dead"

Stopped == [t \in Threads |-> [pc |-> "dead"]]

\* the process is killed: the files stay as readers see them
ProcessCrash ==
    /\ Alive
    /\ \E t \in Threads : sv[t].pc # "idle"
    /\ sv' = Stopped
    /\ UNCHANGED <<dir, lock>>
    /\ SaveFrame

\* the power is lost, and the machine started again
PowerLoss ==
    /\ Alive
    /\ sv' = Stopped
    /\ dir' \in AfterPowerLoss(dir)
    /\ UNCHANGED lock
    /\ SaveFrame

NextSave ==
    \/ \E t \in Threads : SaveCall(t)
    \/ \E t \in Threads : AcquireLock(t)
    \/ \E t \in Threads : MakeDir(t)
    \/ \E t \in Threads : OpenTemp(t)
    \/ \E t \in Threads : DumpTemp(t)
    \/ \E t \in Threads : FsyncTemp(t)
    \/ \E t \in Threads : ReplaceTemp(t)
    \/ \E t \in Threads : CleanUp(t)
    \/ \E t \in Threads : RetryDump(t)
    \/ \E t \in Threads : RetryReplace(t)
    \/ \E t \in Threads : ReleaseLock(t)
    \/ ProcessCrash
    \/ PowerLoss

SpecSave == Init /\ [][NextSave]_vars

(***************************************************************************)
(* Claims on the scoring of verify_device_by_ip                            *)
(***************************************************************************)
\* the call ended by its match step, having read the inventory
Matched == vbi.pc = "done" /\ vbi.result.error = "None"

\* the entry of `matches` for a device, as a set (empty when it has none)
CandidatesOf(device) ==
    {vbi.result.matches[i] : i \in {j \in 1..Len(vbi.result.matches) :
        vbi.result.matches[j].device_id = device.device_id}}

\* what a device should contribute to `matches`, given its points and tags
ScoredAs(device, points, tags) ==
    IF points > 0
    THEN \E c \in CandidatesOf(device) :
            /\ CandidatesOf(device) = {c}
            /\ c.match_score = points
            /\ c.reasons = tags
    ELSE CandidatesOf(device) = {}

\* +10 for a text equal to the expected one, +5 when either contains the
\* other, compared without regard to case
ReferencePoints(actual, expected) ==
    IF actual = <<>> \/ expected = <<>> THEN 0
    ELSE IF Lower(actual) = Lower(expected) THEN 10
    ELSE IF \/ Contains(Lower(actual), Lower(expected))
            \/ Contains(Lower(expected), Lower(actual)) THEN 5
    ELSE 0

ReasonOf(points, field) ==
    IF points = 10 THEN <<"exact_" \o field \o "_match">>
    ELSE IF points = 5 THEN <<"partial_" \o field \o "_match">>
    ELSE <<>>

\* C5 as stated: every inventory record is scored by the reference function,
\* the hostname against expected_hostname and the unique id against
\* expected_unique_id, exact 10, either-contains-the-other 5, and the
\* candidate carries the sum and the matching tags.
C5_ScoreIsReference ==
    Matched =>
        \A i \in 1..Len(config.devices) :
            LET device == config.devices[i]
                h == ReferencePoints(vbi.result.hostname,
                                     ExpectedHostname(device))
                u == ReferencePoints(vbi.result.unique_id, ExpectedUid(device))
            IN  ScoredAs(device, h + u,
                         ReasonOf(h, "hostname") \o ReasonOf(u, "uid"))

\* the hostname's points as the code gives them: the partial match is the
\* device id contained in the hostname, or the hostname contained in the
\* expected hostname
AmendedHostnamePoints(device, hostname) ==
    LET expected == ExpectedHostname(device)
    IN  IF hostname = <<>> THEN 0
        ELSE IF Lower(hostname) = Lower(expected) THEN 10
        ELSE IF \/ Contains(Lower(device.device_id), Lower(hostname))
                \/ Contains(Lower(hostname), Lower(expected)) THEN 5
        ELSE 0

\* C5 as amended: as C5, except that the hostname's +5 is given when the
\* device id is contained in the hostname or the hostname is contained in the
\* expected hostname (the configured hostname, or the device id when none is
\* configured); all comparisons ignore case, and a device of score 0 is no
\* candidate.
C5_ScoreIsAmendedReference ==
    Matched =>
        \A i \in 1..Len(config.devices) :
            LET device == config.devices[i]
                h == AmendedHostnamePoints(device, vbi.result.hostname)
                u == ReferencePoints(vbi.result.unique_id, ExpectedUid(device))
            IN  ScoredAs(device, h + u,
                         ReasonOf(h, "hostname") \o ReasonOf(u, "uid"))

\* a device whose configured hostname differs from its id gets its partial
\* hostname match from the id, and another gets an exact one
C5_Witness ==
    /\ Matched
    /\ \E i \in 1..Len(config.devices) :
        LET device == config.devices[i]
        IN  /\ device.hostname # <<>>
            /\ ReferencePoints(vbi.result.hostname, device.hostname) = 0
            /\ \E c \in CandidatesOf(device) :
                c.reasons = <<"partial_hostname_match", "exact_uid_match">>

\* C6: the candidates are in non-increasing order of score, and the resolved
\* device is the first candidate exactly when that candidate scores at least
\* 5; otherwise no device is resolved and device_found is false.
C6_SortedAndAccepted ==
    vbi.pc = "done" =>
        LET r == vbi.result
        IN  /\ \A i \in 1..(Len(r.matches) - 1) :
                r.matches[i].match_score >= r.matches[i + 1].match_score
            /\ IF r.matches # <<>> /\ r.matches[1].match_score >= 5
               THEN /\ r.device_found
                    /\ r.device_id = r.matches[1].device_id
               ELSE /\ ~r.device_found
                    /\ r.device_id = None

\* the partial hostname and the exact unique id of one device sum to 15 and
\* resolve to it, ahead of a second candidate of lower score
C6_Witness ==
    /\ vbi.pc = "done"
    /\ Len(vbi.result.matches) >= 2
    /\ vbi.result.matches[1].match_score = 15
    /\ vbi.result.matches[1].reasons =
            <<"partial_hostname_match", "exact_uid_match">>
    /\ vbi.result.matches[2].match_score < 15
    /\ vbi.result.device_id = vbi.result.matches[1].device_id

(***************************************************************************)
(* Claims on the credential fallback and the failure classification        *)
(***************************************************************************)
\* the log of the call that made the last exchange, and the address it probes
LastLog == IF fw.pc = "done" THEN fw.attempts ELSE vbi.attempts

LastIp == IF fw.pc = "done" THEN fw.ip ELSE vbi.ip

\* the last exchange's key attempt ran and exited non-zero
KeyFailed == io.key.kind = "done" /\ io.key.returncode # 0

\* the position in the log of the key attempt of the last exchange
KeyPosition ==
    CHOOSE i \in 1..Len(LastLog) :
        /\ LastLog[i].method = "key"
        /\ \A j \in (i + 1)..Len(LastLog) : LastLog[j].method # "key"

\* C8: when the key attempt of a command fails and a password is cached for
\* the probed address, the next attempt of that command relays exactly the
\* cached credential; no attempt ever uses the default credential.
C8_CachedCredentialNext ==
    /\ \A i \in 1..Len(vbi.attempts) : vbi.attempts[i].method # "default"
    /\ \A i \in 1..Len(fw.attempts) : fw.attempts[i].method # "default"
    /\ (KeyFailed /\ creds[LastIp] = "password") =>
            /\ Len(LastLog) > KeyPosition
            /\ LastLog[KeyPosition + 1] =
                    [cmd |-> LastLog[KeyPosition].cmd, method |-> "cached"]

\* the hostname is obtained by the cached password after the key failed
C8_Witness ==
    /\ vbi.pc = "uid"
    /\ KeyFailed
    /\ creds[vbi.ip] = "password"
    /\ vbi.attempts = <<[cmd |-> "hostname", method |-> "key"],
                        [cmd |-> "hostname", method |-> "cached"]>>
    /\ vbi.result.hostname # None

\* C9: when the key attempt of a command fails and no password is cached for
\* the probed address, the next attempt of that command uses the default
\* credential of the device class.
C9_DefaultCredentialNext ==
    (KeyFailed /\ creds[LastIp] # "password") =>
        /\ Len(LastLog) > KeyPosition
        /\ LastLog[KeyPosition + 1] =
                [cmd |-> LastLog[KeyPosition].cmd, method |-> "default"]

\* the tag of a text by the documented priority
PriorityTag(text) ==
    LET order == <<"timeout", "connection_refused", "auth_failed">>
        hit(tag) ==
            CASE tag = "timeout" -> text \cap {"timeout", "timed out"} # {}
              [] tag = "connection_refused" -> "connection refused" \in text
              [] tag = "auth_failed" ->
                    text \cap {"permission denied", "authentication failed"}
                        # {}
        hits == {i \in 1..Len(order) : hit(order[i])}
    IN  IF hits = {} THEN "connection_error"
        ELSE order[CHOOSE i \in hits : \A j \in hits : i <= j]

\* the probe failed: it got no hostname, or it returns an error
ProbeFailed(result) == result.hostname = None \/ result.error # "None"

\* the state is the one the hostname command leaves
AfterHostname ==
    /\ vbi.pc \in {"uid", "done"}
    /\ io.key.kind # "notrun"
    /\ vbi.attempts[Len(vbi.attempts)].cmd = "hostname"

\* C10: every failed probe result carries exactly one tag of the four, the
\* one the priority order gives for the text of the last attempt (the
\* stderr of the key attempt, the stderr and stdout of the password
\* attempt); ssh_error is set exactly when ssh_error_type is.
C10_FailureTagged ==
    /\ (vbi.result.ssh_error = "None") = (vbi.result.ssh_error_type = "None")
    /\ (AfterHostname /\ KeyFailed /\ io.pw.kind = "notrun") =>
            vbi.ssh_error_type = PriorityTag(io.key.stderr)
    /\ (AfterHostname /\ io.pw.kind = "done" /\ io.pw.returncode # 0) =>
            vbi.ssh_error_type = PriorityTag(io.pw.stderr \cup io.pw.stdoutText)
    /\ (vbi.pc = "done" /\ ProbeFailed(vbi.result)) =>
            vbi.result.ssh_error_type \in Tags

\* an attempt that was made and did not succeed
AttemptFailed(proc) ==
    proc.kind # "notrun" /\ (proc.kind # "done" \/ proc.returncode # 0)

\* the classification of a failed attempt by its own output: the text the
\* process wrote, or the exception that ended it
AttemptClass(proc, by_password) ==
    IF proc.kind = "TimeoutExpired" THEN "timeout"
    ELSE IF proc.kind = "Exception" THEN Classify(proc.exc)
    ELSE IF by_password THEN Classify(proc.stderr \cup proc.stdoutText)
    ELSE Classify(proc.stderr)

\* the attempts the log holds for a command, and those not made by key
AttemptsOf(log, cmd) == {i \in DOMAIN log : log[i].cmd = cmd}

RetriesOf(log, cmd) == {i \in AttemptsOf(log, cmd) : log[i].method # "key"}

\* C27: in the step that runs the hostname command, a key attempt that
\* succeeds is the only attempt; a failed key attempt is followed by at most
\* one password attempt; and when the last attempt made has failed, the
\* classification the call holds is that of this last attempt.
C27_ChainStopsAtFirstSuccess ==
    [][(vbi.pc = "hostname" /\ vbi' # vbi) =>
        LET key == io'.key
            pw == io'.pw
            log == vbi'.attempts
            last == IF pw.kind # "notrun" THEN pw ELSE key
        IN  /\ (key.kind = "done" /\ key.returncode = 0) =>
                    log = <<Attempt("hostname", "key")>>
            /\ Cardinality(RetriesOf(log, "hostname")) <= 1
            /\ Cardinality(AttemptsOf(log, "hostname")) <= 2
            /\ AttemptFailed(last) =>
                    vbi'.ssh_error_type =
                        AttemptClass(last, pw.kind # "notrun")]_vars

\* C27 with the exceptions left aside: the same whenever the last attempt
\* ended with an exit status or with TimeoutExpired
C27_ChainStopsUnlessException ==
    [][(vbi.pc = "hostname" /\ vbi' # vbi) =>
        LET key == io'.key
            pw == io'.pw
            log == vbi'.attempts
            last == IF pw.kind # "notrun" THEN pw ELSE key
        IN  /\ (key.kind = "done" /\ key.returncode = 0) =>
                    log = <<Attempt("hostname", "key")>>
            /\ Cardinality(RetriesOf(log, "hostname")) <= 1
            /\ Cardinality(AttemptsOf(log, "hostname")) <= 2
            /\ (AttemptFailed(last) /\ last.kind # "Exception") =>
                    vbi'.ssh_error_type =
                        AttemptClass(last, pw.kind # "notrun")]_vars

(***************************************************************************)
(* Claims on update_device_ip_if_changed                                   *)
(***************************************************************************)
\* the update call has returned and its verification is not verified
UpdateUnverified ==
    /\ call.pc = "done"
    /\ call.op = "update"
    /\ ~call.verification.verified

\* C7: whenever the verification made by update_device_ip_if_changed is not
\* verified, no step of the call writes the inventory file (every device's
\* configured ip, and the file itself, stay as they were), and the result
\* has success = false with the verification attached.
C7_UnverifiedNeverWrites ==
    /\ [](UpdateUnverified =>
            /\ call.result.kind = "result"
            /\ ~call.result.success
            /\ call.result.verification = call.verification
            /\ call.result.verification.kind # "none")
    /\ [][(call.op = "update" /\ call' # call
                /\ ~call'.verification.verified) => config' = config]_vars

\* the device answered with a hostname and a unique id that both differ from
\* the expected ones, at an address other than the configured one, and the
\* update was refused
C7_Witness ==
    /\ UpdateUnverified
    /\ call.verification.success
    /\ call.verification.actual_hostname # None
    /\ call.verification.actual_unique_id # None
    /\ call.verification.configured_ip # call.ip
    /\ call.ip # "None"
    /\ ~call.result.success
    /\ call.result.verification = call.verification

\* update_device_ip_if_changed is past its verification, which verified the
\* device, and has the inventory with the device in it before it
UpdateVerified ==
    /\ call.pc = "decide"
    /\ call.op = "update"
    /\ Verified(call.verification)
    /\ config.readable
    /\ HasDevice(config.devices, call.verification.device_id)

\* the inventory with the configured ip of one device set to new_ip, all
\* else as before
WithIp(inventory, device_id, new_ip) ==
    [inventory EXCEPT
        !.devices[IndexOf(inventory.devices, device_id)].ip = new_ip]

ConfiguredIp(inventory, device_id) ==
    inventory.devices[IndexOf(inventory.devices, device_id)].ip

\* C22: when update_device_ip_if_changed has verified the device and new_ip
\* differs from the configured ip, the step that ends the call leaves the
\* inventory as it was except that the device's configured ip is new_ip,
\* and the result reports old_ip and new_ip; when new_ip is the configured
\* ip the inventory is left as it was.
C22_UpdateRewritesOneField ==
    [][(UpdateVerified /\ call' # call) =>
        LET device_id == call.verification.device_id
            old_ip == ConfiguredIp(config, device_id)
        IN  IF old_ip # call.ip
            THEN /\ config' = WithIp(config, device_id, call.ip)
                 /\ call'.result.success
                 /\ call'.result.old_ip = old_ip
                 /\ call'.result.new_ip = call.ip
            ELSE config' = config]_vars

\* C22, the same whenever the call reports success, and with the inventory
\* as it was whenever it reports failure
C22_UpdateRewritesOneFieldOrNone ==
    [][(UpdateVerified /\ call' # call) =>
        LET device_id == call.verification.device_id
            old_ip == ConfiguredIp(config, device_id)
        IN  IF old_ip # call.ip /\ call'.result.success
            THEN /\ config' = WithIp(config, device_id, call.ip)
                 /\ call'.result.old_ip = old_ip
                 /\ call'.result.new_ip = call.ip
            ELSE config' = config]_vars

(***************************************************************************)
(* Claims on the identity cache                                            *)
(***************************************************************************)
\* an entry with an established identity
Established(entry) == entry.hostname # None \/ entry.device_id # None

\* a device_info that carries an error and no identity
CarriesOnlyError(device_info) ==
    /\ InfoGet(device_info, "hostname") = None
    /\ InfoGet(device_info, "device_id") = None
    /\ InfoGet(device_info, "unique_id") = None
    /\ InfoGet(device_info, "ssh_error") # "None"

\* thread t takes the step that merges its device_info into the cache it
\* loaded, which is the cache the file still holds, and saves it
MergeStep(t) ==
    /\ thr[t].pc = "save"
    /\ thr'[t].pc = "done"
    /\ thr'[t].saved
    /\ thr[t].cache = load_device_cache(cache_file)

\* C1: a merge that carries only an error, onto an entry whose identity an
\* earlier merge established, leaves the entry's hostname, unique_id and
\* device_id as they were.
C1_ErrorKeepsIdentity ==
    [][\A t \in Threads :
        LET before == CacheGet(load_device_cache(cache_file), thr[t].ip)
            after == CacheGet(load_device_cache(cache_file'), thr[t].ip)
        IN  (/\ MergeStep(t)
             /\ Established(before)
             /\ CarriesOnlyError(thr[t].device_info))
            => /\ after.hostname = before.hostname
               /\ after.unique_id = before.unique_id
               /\ after.device_id = before.device_id]_vars

\* thread t has merged and saved device_info for ip
Merged(t, ip) ==
    /\ thr[t].pc = "done"
    /\ thr[t].ip = ip
    /\ thr[t].saved

\* C2: when two calls for one IP have both merged and saved, one with a
\* hostname it observed and one with only an error, the entry of the cache
\* file for that IP has the observed hostname, whatever the interleaving.
C2_StaleErrorNeverOverwrites ==
    \A t, u \in Threads, ip \in IPs :
        (/\ t # u
         /\ Merged(t, ip)
         /\ Merged(u, ip)
         /\ InfoGet(thr[t].device_info, "hostname") # None
         /\ CarriesOnlyError(thr[u].device_info))
        => CacheGet(load_device_cache(cache_file), ip).hostname =
                InfoGet(thr[t].device_info, "hostname")

\* thread t takes the step in which get_cached_device_info runs
GetStep(t) == thr[t].pc = "get" /\ thr'[t].pc # "get"

\* C3: get_cached_device_info returns None when the address has no entry or
\* its entry is more than 24 hours old, and the entry otherwise; it leaves
\* the cache file as it is, expired entries included.
C3_GetHonoursTtl ==
    [][\A t \in Threads :
        GetStep(t) =>
            /\ cache_file' = cache_file
            /\ IF /\ cache_file.kind = "json"
                  /\ thr[t].ip \in DOMAIN cache_file.cache
                  /\ now - cache_file.cache[thr[t].ip].cached_at
                        <= 24 * 60 * 60
               THEN /\ ~thr'[t].ret.none
                    /\ thr'[t].ret.entry = cache_file.cache[thr[t].ip]
               ELSE thr'[t].ret.none]_vars

\* a get of an expired entry has returned None, and the entry is still in
\* the file
C3_Witness ==
    \E t \in Threads :
        /\ thr[t].op = "get"
        /\ thr[t].pc = "done"
        /\ thr[t].ret.none
        /\ cache_file.kind = "json"
        /\ thr[t].ip \in DOMAIN cache_file.cache
        /\ now - cache_file.cache[thr[t].ip].cached_at > 24 * 60 * 60

\* the entry is one of an identified device
Identified(entry) == entry.hostname # None \/ entry.device_found

\* C14: no entry of the cache file, and no entry a merge has just built, has
\* both an established identity (a hostname, or device_found) and a stored
\* ssh_error or ssh_error_type.
C14_IdentityClearsError ==
    /\ \A ip \in DOMAIN load_device_cache(cache_file) :
            LET entry == load_device_cache(cache_file)[ip]
            IN  Identified(entry) =>
                    entry.ssh_error = "None" /\ entry.ssh_error_type = "None"
    /\ \A t \in Threads :
            (thr[t].pc = "done" /\ thr[t].op \in {"merge", "identify"}
                /\ thr[t].ip \in DOMAIN thr[t].cache
                /\ Identified(thr[t].cache[thr[t].ip])) =>
                    /\ thr[t].cache[thr[t].ip].ssh_error = "None"
                    /\ thr[t].cache[thr[t].ip].ssh_error_type = "None"

\* a merge that carried an error was saved on an entry with a hostname, and
\* the stored entry has the hostname and no error
C14_Witness ==
    \E t \in Threads :
        /\ thr[t].pc = "done"
        /\ thr[t].op = "merge"
        /\ thr[t].saved
        /\ InfoGet(thr[t].device_info, "ssh_error") # "None"
        /\ cache_file.kind = "json"
        /\ thr[t].ip \in DOMAIN cache_file.cache
        /\ cache_file.cache[thr[t].ip].hostname # None
        /\ cache_file.cache[thr[t].ip].ssh_error = "None"

\* thread t loads the cache file in this step
LoadsFile(t) ==
    /\ thr[t].pc \in {"get", "load", "rename_load"}
    /\ thr'[t] # thr[t]

\* the content of the file is there and does not parse
Unparsable(file) == file.kind \in {"garbled", "undecodable"}

\* C15: a load of a cache file whose content does not parse leaves a copy of
\* the file in the backup, goes on as with an empty cache (get returns None,
\* a merge starts from the empty dict, a rename finds no entry), and raises
\* nothing.
C15_CorruptRecovered ==
    [][\A t \in Threads :
        (LoadsFile(t) /\ Unparsable(cache_file)) =>
            /\ thr'[t].pc # "raised"
            /\ backup' = cache_file
            /\ cache_file' = cache_file
            /\ thr[t].pc = "get" => thr'[t].ret.none
            /\ thr[t].pc = "load" => thr'[t].cache = EmptyCache
            /\ thr[t].pc = "rename_load" =>
                    thr'[t].pc = "done" /\ ~thr'[t].flag]_vars

\* thread t returns in this step from a cache_device_info that it ran, alone
\* or inside identify_and_cache_device
MergeReturns(t) ==
    /\ thr[t].pc = "done"
    /\ thr[t].op \in {"merge", "identify"}
    /\ thr[t].device_info.keys # {}
    /\ thr'[t].pc = "idle"

SaveStepOf(t) == thr[t].pc = "save" /\ thr'[t].pc # "save"

RenameEnds(t, flag) ==
    /\ thr[t].op = "rename"
    /\ thr[t].pc \in {"rename_load", "rename_save"}
    /\ thr'[t].pc = "done"
    /\ thr'[t].flag = flag

\* C17: update_cached_friendly_name returns False exactly when the address
\* has no entry, and then the cache file is as it was; when it returns True
\* the entry of the address has the new friendly_name, its hostname,
\* unique_id and device_id are as before, and every other entry is as
\* before.
C17_RenameFrame ==
    [][\A t \in Threads :
        LET ip == thr[t].ip
            before == load_device_cache(cache_file)
            after == load_device_cache(cache_file')
        IN  /\ RenameEnds(t, FALSE) =>
                    /\ ip \notin DOMAIN before
                    /\ cache_file' = cache_file
            /\ RenameEnds(t, TRUE) =>
                    /\ DOMAIN after = DOMAIN before
                    /\ ip \in DOMAIN after
                    /\ after[ip].friendly_name =
                            InfoGet(thr[t].device_info, "friendly_name")
                    /\ after[ip].hostname = before[ip].hostname
                    /\ after[ip].unique_id = before[ip].unique_id
                    /\ after[ip].device_id = before[ip].device_id
                    /\ \A other \in DOMAIN before \ {ip} :
                            after[other] = before[other]]_vars

\* C18: once every clear_device_cache has returned, get returns None for
\* each address whose entry a clear removed, until cache_device_info stores an
\* entry for that address again.
C18_ClearedStaysCleared ==
    (\A t \in Threads : thr[t].op # "clear") =>
        \A ip \in wiped :
            get_cached_device_info(load_device_cache(cache_file), ip, now).none

\* thread t has returned from a cache_device_info for ip whose save
\* replaced the file
Stored(t, ip) == Merged(t, ip) /\ thr[t].op \in {"merge", "identify"}

\* C24: when two threads have both stored an entry, for two distinct
\* addresses, and neither call has yet been followed by another, the cache
\* file holds an entry for each of the two addresses, in every
\* interleaving of the two calls.
C24_NoLostUpdate ==
    \A t, u \in Threads, a, b \in IPs :
        (t # u /\ a # b /\ Stored(t, a) /\ Stored(u, b)) =>
            {a, b} \subseteq DOMAIN load_device_cache(cache_file)

(***************************************************************************)
(* Claims on identify_and_cache_device                                     *)
(***************************************************************************)
\* C19: two identifications of one address in immediate succession, the
\* device answering alike and the inventory unchanged, return the same
\* candidates (members, scores, reasons, order) and the same device_id,
\* whether the second call probes the device or is answered from the cache.
C19_IdentifyIdempotent ==
    run.pc = "twice" =>
        /\ ~run.first.none /\ ~run.second.none
        /\ run.second.entry.matches = run.first.entry.matches
        /\ run.second.entry.device_id = run.first.entry.device_id

\* the first call probed the device and found two candidates, the second
\* was answered from the cache
C19_Witness ==
    /\ run.pc = "twice"
    /\ run.probed = <<TRUE, FALSE>>
    /\ Len(run.first.entry.matches) = 2
    /\ run.first.entry.device_id # None

\* the first call probed the device, which gave a hostname that matches no
\* device of the inventory, and no unique id
Unmatched ==
    /\ run.pc = "once"
    /\ run.probed[1]
    /\ run.first.entry.hostname # None
    /\ run.first.entry.unique_id = None
    /\ \A i \in 1..Len(config.devices) :
            HostnameScore(config.devices[i], run.first.entry.hostname).score = 0

\* the cache file has an entry for the caller's address with the hostname
\* the call returned, and get returns that entry at every time within the
\* expiry
HoldsProbeFacts(file) ==
    /\ run.ip \in DOMAIN load_device_cache(file)
    /\ LET entry == load_device_cache(file)[run.ip]
       IN  /\ entry.hostname = run.first.entry.hostname
           /\ \A later \in ClockValues :
                (later >= now /\ later - entry.cached_at <= 24 * 60 * 60) =>
                    get_cached_device_info(load_device_cache(file), run.ip,
                                           later) = Returned(entry)

FailedOnce ==
    run.pc = "once" /\ run.probed[1] /\ ~run.first.entry.device_found

\* what get_cached_device_info finds for the caller's address
CachedForRun ==
    get_cached_device_info(load_device_cache(cache_file), run.ip, now)

\* the cached entry records an ssh error and no hostname
ErrorWithoutHostname(entry) ==
    entry.ssh_error # "None" /\ entry.hostname = None

UnmatchedProbedOnce ==
    /\ run.pc = "twice"
    /\ run.probed = <<TRUE, FALSE>>
    /\ ~run.first.entry.device_found
    /\ run.first.entry.hostname # None

(***************************************************************************)
(* Claims on save_device_cache                                             *)
(***************************************************************************)
\* C4: at every point of save_device_cache, a crash at any point and the
\* retry path included, the cache file holds the complete json of a dict:
\* the one it held before or the one being saved, never a truncated or
\* unparsable text.
C4_CacheFileAlwaysComplete ==
    /\ dir.cache.exists
    /\ dir.cache.data.kind = "complete"

(***************************************************************************)
(* Claims on the file transfers                                            *)
(***************************************************************************)
\* what the session acquisition of the running operation returned, "None"
\* while it was not asked
Acquired ==
    IF \E k \in DOMAIN xfer.cmds : xfer.cmds[k].program = "session"
    THEN LET k == CHOOSE k \in DOMAIN xfer.cmds :
                      xfer.cmds[k].program = "session"
         IN xfer.cmds[k].outcome
    ELSE "None"

\* the transfer commands the running operation has run
Transfers ==
    {k \in DOMAIN xfer.cmds : xfer.cmds[k].program \in {"scp", "rsync"}}

\* C11: when the session acquisition returns no handle, or a handle whose
\* process has exited, each of the four operations still runs its transfer
\* (one command, or one per pair in a batch), every transfer command uses
\* the direct-connection options and none the control path, and the
\* success flag of the result is true exactly if every transfer command
\* exited with status 0.
C11_DirectFallback ==
    (xfer.pc = "done" /\ Acquired \in {"none", "dead"}) =>
        /\ Cardinality(Transfers) =
             IF IsBatch(xfer.op) THEN Len(xfer.file_pairs) ELSE 1
        /\ \A k \in Transfers : xfer.cmds[k].options = DirectOptions
        /\ xfer.result.success =
             (\A k \in Transfers : xfer.cmds[k].outcome = "ok")

\* C11 witness: a batch of two pairs found the handle dead, ran both copies
\* over direct connections and succeeded
C11_Witness ==
    /\ xfer.pc = "done"
    /\ IsBatch(xfer.op)
    /\ Acquired = "dead"
    /\ Len(xfer.file_pairs) = MaxPairs
    /\ Cardinality(Transfers) = MaxPairs
    /\ \A k \in Transfers : xfer.cmds[k].options = DirectOptions
    /\ xfer.result.success

\* the batch has run its pool and returned its record
BatchReturned ==
    xfer.pc = "done" /\ IsBatch(xfer.op) /\ Acquired \in Masters

\* C12: the record copy_files_to_device_parallel returns after its pool has
\* run holds exactly one result per file pair, each pair was attempted by
\* exactly one scp command and its result says whether that command exited
\* with status 0, whatever happened to the other pairs (another exit
\* status, a timeout, an exception); successful + failed = total_files =
\* the number of results = the number of pairs, and success is true
\* exactly if failed = 0.
C12_BatchOutcomes ==
    BatchReturned =>
        LET r == xfer.result
            pairs == DOMAIN xfer.file_pairs
        IN /\ \A i \in pairs :
                /\ Cardinality({k \in Transfers : xfer.cmds[k].pair = i}) = 1
                /\ Cardinality({k \in DOMAIN r.results :
                                   r.results[k].pair = i}) = 1
                /\ \A k \in DOMAIN r.results, c \in Transfers :
                      (r.results[k].pair = i /\ xfer.cmds[c].pair = i) =>
                          (r.results[k].success = (xfer.cmds[c].outcome = "ok"))
           /\ Len(r.results) = Len(xfer.file_pairs)
           /\ r.total_files = Len(r.results)
           /\ r.successful + r.failed = r.total_files
           /\ r.successful =
                Cardinality({k \in DOMAIN r.results : r.results[k].success})
           /\ r.success = (r.failed = 0)

\* C12 witness: a batch of two pairs returned with one copy that exited 0
\* and one whose run raised, collected in the other order than submitted
C12_Witness ==
    /\ BatchReturned
    /\ Len(xfer.file_pairs) = 2
    /\ xfer.result.results[1].pair = 2
    /\ xfer.result.results[1].error = "raised"
    /\ xfer.result.results[2].success
    /\ xfer.result.successful = 1
    /\ xfer.result.failed = 1
    /\ ~xfer.result.success

\* the operation has run its checks
Checked == xfer.pc \notin {"idle", "called"}

\* the operations that read a local file
ReadsLocalFile(op) == op \in {"copy_file_to_device"}

HasPair(kind) == \E i \in DOMAIN xfer.file_pairs : xfer.file_pairs[i] = kind

\* the file_pairs argument is empty or holds something that is no pair
BadPairs == IsBatch(xfer.op) /\ (xfer.file_pairs = <<>> \/ HasPair("malformed"))

\* the device reference does not resolve
UnknownDevice == Checked /\ xfer.resolved = "None"

\* the device resolves and has no ip
DeviceWithoutIp ==
    Checked /\ xfer.resolved # "None" /\ xfer.device = "no_ip"

\* a local file to send is missing
LocalMissing ==
    \/ ReadsLocalFile(xfer.op) /\ xfer.local = "missing"
    \/ IsBatch(xfer.op) /\ HasPair("missing")

\* a local path to send is no regular file, in the single copy
LocalNotRegular == ReadsLocalFile(xfer.op) /\ xfer.local = "dir"

\* a local path to send is no regular file, in the batch
PairNotRegular == IsBatch(xfer.op) /\ HasPair("dir")

\* what a precondition failure must look like: the operation asked for no
\* session and ran no remote command, and once it has returned its result
\* has success false and an error message, which contains "not found" and
\* comes with the supplied device_id when the unknown device is the first
\* failure met, and contains "not found" when a missing local file is
Refused ==
    /\ xfer.cmds = <<>>
    /\ xfer.pc # "raised"
    /\ xfer.pc = "done" =>
        /\ ~xfer.result.success
        /\ xfer.result.error # <<>>
        /\ (UnknownDevice /\ ~BadPairs) =>
              /\ Contains(<<"not found">>, xfer.result.error)
              /\ xfer.result.device_id = xfer.device_id
        /\ (LocalMissing /\ ~BadPairs /\ ~UnknownDevice
                /\ xfer.device = "ok") =>
              Contains(<<"not found">>, xfer.result.error)

\* C13 as stated: an operation whose device reference does not resolve,
\* whose device has no ip, whose local file is missing, whose local path
\* is not a regular file (single copy or batch), or whose file_pairs is
\* empty or holds a malformed pair, is refused before any session
\* acquisition or remote command, with success false and an error message
\* ("not found" for the unknown device, with the supplied device_id, and
\* for the missing local file).
C13_PreconditionFailures ==
    (Checked /\ (UnknownDevice \/ DeviceWithoutIp \/ LocalMissing
                    \/ LocalNotRegular \/ PairNotRegular \/ BadPairs))
        => Refused

\* C13 amended: the same for every listed failure except a batch pair whose
\* local path is not a regular file: copy_files_to_device_parallel checks
\* only that each local path exists, so with nothing else wrong such a
\* batch asks for the session and runs scp for its pairs, and the failure
\* shows in the pair's own result.
C13_PreconditionFailuresButBatchDir ==
    /\ (Checked /\ (UnknownDevice \/ DeviceWithoutIp \/ LocalMissing
                       \/ LocalNotRegular \/ BadPairs))
          => Refused
    /\ (Checked /\ PairNotRegular /\ ~BadPairs /\ ~LocalMissing
            /\ ~UnknownDevice /\ xfer.device = "ok")
          => /\ xfer.pc # "acquire" => Acquired # "None"
             /\ (xfer.pc = "done" /\ Acquired \in Masters) =>
                   Cardinality(Transfers) = Len(xfer.file_pairs)

\* C13 witness: a batch to a known device with an ip, one of whose two
\* local files is missing, has returned "not found" without asking for a
\* session
C13_Witness ==
    /\ xfer.pc = "done"
    /\ IsBatch(xfer.op)
    /\ xfer.file_pairs = <<"file", "missing">>
    /\ xfer.resolved = "a"
    /\ xfer.device = "ok"
    /\ ~xfer.result.success
    /\ Contains(<<"not found">>, xfer.result.error)
    /\ xfer.cmds = <<>>

(***************************************************************************)
(* Claims on the public boundary                                           *)
(***************************************************************************)
\* C23: no call of verify_device_identity, update_device_ip_if_changed,
\* verify_device_by_ip, a cache operation or a file transfer operation ends
\* with an exception that reaches its caller: each ends with a returned
\* value.
C23_NothingRaises ==
    /\ call.pc # "raised"
    /\ vbi.pc # "raised"
    /\ \A t \in Threads : thr[t].pc # "raised"
    /\ xfer.pc # "raised"

(***************************************************************************)
(* Claims on the sessions of the transfers                                 *)
(***************************************************************************)
\* C26: any two successive transfer commands that were run over a control
\* path used the same control path exactly if their operations asked the
\* session for the same key (device_id, ip, port, username).
C26_PathFollowsKey ==
    (xfer.mux[1] # NoUse /\ xfer.mux[2] # NoUse) =>
        ((xfer.mux[1].path = xfer.mux[2].path) <=>
            (xfer.mux[1].key = xfer.mux[2].key))

\* the live sessions of a key
LiveFor(key) ==
    {session \in pool.live : pool.owner[session] = key}

Persisted(k) ==
    /\ k \in DOMAIN config'.devices
    /\ config'.devices[k].device_id = config.devices[k].device_id
    /\ config'.devices[k].ip # config.devices[k].ip

\* C28: a verification that ends with verified = true read the hostname and
\* the unique id it compared from the endpoint at ip_checked, and
\* update_device_ip_if_changed writes new_ip into the inventory only after
\* the commands of its verification were run at new_ip.
C28_VerifiesCheckedEndpoint ==
    [][/\ call'.verification.verified =>
            call'.endpoint = call'.verification.ip_checked
       /\ \A k \in DOMAIN config.devices :
            Persisted(k) => call.endpoint = config'.devices[k].ip]_vars

\* an observed value equals, contains or is contained in the expected one
Related(observed, expected) ==
    /\ expected # None
    /\ \/ Lower(observed) = Lower(expected)
       \/ Contains(Lower(observed), Lower(expected))
       \/ Contains(Lower(expected), Lower(observed))

\* C30: hostname_matches and unique_id_matches are true only when the
\* observed value equals, contains or is contained in the value the device's
\* record expects, and verified is true only when one of the two is; a
\* record without an expected unique id is never verified because the
\* endpoint returned some unique id.
C30_VerifiedOnlyOnMatch ==
    LET v == call.verification
    IN  /\ v.hostname_matches =>
                Related(v.actual_hostname, v.expected_hostname)
        /\ v.unique_id_matches =>
                Related(v.actual_unique_id, v.expected_unique_id)
        /\ v.verified => (v.hostname_matches \/ v.unique_id_matches)

\* C30 without its last clause: a record without an expected unique id may
\* take any unique id the endpoint returns for a match
C30_MatchOrNothingExpected ==
    LET v == call.verification
    IN  /\ v.hostname_matches =>
                Related(v.actual_hostname, v.expected_hostname)
        /\ v.unique_id_matches =>
                \/ v.expected_unique_id = None
                \/ Related(v.actual_unique_id, v.expected_unique_id)
        /\ v.verified => (v.hostname_matches \/ v.unique_id_matches)

(***************************************************************************)
(* Claims on the age of what the cache returns                             *)
(***************************************************************************)
\* the entry get_cached_device_info(ip) returns now carries a hostname or a
\* device id
ReadableIdentity(ip) ==
    LET got == get_cached_device_info(load_device_cache(cache_file), ip, now)
    IN  /\ ~got.none
        /\ got.entry.hostname # None \/ got.entry.device_id # None

\* C29: every entry get_cached_device_info(ip) returns carries a hostname
\* and a device id that a probe observed no more than CACHE_EXPIRY_SECONDS
\* before the read; an error-only merge onto an expired entry does not
\* make the old identity readable again under a fresh timestamp.
C29_BoundedStaleness ==
    \A ip \in IPs :
        ReadableIdentity(ip) =>
            now - load_device_cache(cache_file)[ip].observed_at
                <= CACHE_EXPIRY_SECONDS

====
